---- MODULE Spec2Model ----
(***************************************************************************)
(* Model of the transaction class Tx of @helios-lang/ledger                *)
(* (src/babbage/tx/Tx.js), of TxOutput and of NetworkParamsHelper.         *)
(*                                                                         *)
(* A single Tx object is modelled: its body, its witnesses, its private    *)
(* `valid` flag and its optional metadata.  Every public method of Tx is   *)
(* one action; the private validateXxx methods are operators that return   *)
(* "ok" or the error they throw.                                           *)
(***************************************************************************)
EXTENDS Integers, Sequences, FiniteSets, TLC

VARIABLES
    tx,          \* the Tx object: [body, witnesses, valid, metadata]
    params,      \* the NetworkParams snapshot handed to every call
    config,      \* the global config object ([STRICT_BABBAGE])
    vm,          \* the cost the script VM measures for one program run
    lastOp,      \* the method called last
    lastArg,     \* its argument (strict, forFeeCalculation, signature, ...)
    lastErr,     \* "ok" or the error it threw
    checksRun,   \* validate: the checks that were started, in order
    ret,         \* the value the last call returned (<<>> when it returned none)
    wire,        \* the bytes handed to the last Tx.fromCbor
    sigOk        \* history: validateSignatures has succeeded on this Tx

vars == <<tx, params, config, vm, lastOp, lastArg, lastErr, checksRun, ret, wire, sigOk>>

\* an absent option of a hash, of an index or of a metadata blob (all are >= 1)
None == 0

-----------------------------------------------------------------------------
(* Bounds of the model *)

NKeys == 2          \* public-key hashes 1..NKeys
NScripts == 2       \* hashes 1..NScripts of the scripts to attach
FeeSpread == 2      \* fees tried on either side of the minimum
MaxCollateral == 3  \* collateral inputs of one transaction
MaxAttached == 2    \* Plutus scripts attached to one transaction
HashSlack == 1      \* bytes a byte string is shorter or longer than a hash
MaxRounds == 5      \* iterations of the loop of correctLovelace that are followed

Keys == 1..NKeys
ScriptHashes == 1..NScripts

-----------------------------------------------------------------------------
(* Generic helpers *)

Range(s) == {s[i] : i \in DOMAIN s}

RECURSIVE SumSeq(_)
SumSeq(s) == IF s = <<>> THEN 0 ELSE Head(s) + SumSeq(Tail(s))

Map(s, F(_)) == [i \in DOMAIN s |-> F(s[i])]


\* ceil(n / d) for d > 0 (Math.ceil of a quotient)
CeilDiv(n, d) == IF n >= 0 THEN (n + d - 1) \div d ELSE -((-n) \div d)

\* lexicographic comparison of two pairs of numbers: -1, 0 or 1
ComparePair(a, b) ==
    IF a[1] < b[1] THEN -1
    ELSE IF a[1] > b[1] THEN 1
    ELSE IF a[2] < b[2] THEN -1
    ELSE IF a[2] > b[2] THEN 1
    ELSE 0

-----------------------------------------------------------------------------
(* CBOR primitives of @helios-lang/cbor, by the number of bytes they emit *)

\* encodeInt: head byte plus 0, 1, 2, 4 or 8 bytes of argument
encodeIntLen(n) ==
    LET m == IF n >= 0 THEN n ELSE -n - 1
    IN  IF m < 24 THEN 1
        ELSE IF m < 256 THEN 2
        ELSE IF m < 65536 THEN 3
        ELSE IF m \div 65536 < 65536 THEN 5
        ELSE 9

\* encodeBytes of a byte string of n bytes (definite length)
encodeBytesLen(n) == encodeIntLen(n) + n

\* head of a list, tuple or map of n entries
encodeHeadLen(n) == encodeIntLen(n)

\* encodeBool: 0xf5 for true, 0xf4 for false
encodeBool(b) == IF b THEN 245 ELSE 244
decodeBool(byte) == byte = 245

HashLen == 28

-----------------------------------------------------------------------------
(* Value and Assets (money/): a lovelace quantity and a list of            *)
(* <<policy, <<name, quantity>> list>> entries, kept in the order given    *)

Policies == {1, 2}
TokenNames == {1, 2}
AssetClasses == Policies \X TokenNames

NoAssets == <<>>
Lovelace(n) == [lovelace |-> n, assets |-> NoAssets]

\* the quantity of asset class <<p, n>> in an Assets list
AssetsQty(assets, p, n) ==
    SumSeq([i \in DOMAIN assets |->
        IF assets[i][1] = p
        THEN SumSeq([j \in DOMAIN assets[i][2] |->
                IF assets[i][2][j][1] = n THEN assets[i][2][j][2] ELSE 0])
        ELSE 0])

\* Assets.isZero: no asset class with a non-zero quantity
AssetsIsZero(assets) == \A c \in AssetClasses : AssetsQty(assets, c[1], c[2]) = 0

\* Assets.getPolicies: the policies in list order
getPolicies(assets) == [i \in DOMAIN assets |-> assets[i][1]]

\* Assets.assertSorted: policies strictly ascending, names ascending per policy
AssetsSorted(assets) ==
    /\ \A i \in DOMAIN assets : i > 1 => assets[i - 1][1] < assets[i][1]
    /\ \A i \in DOMAIN assets : \A j \in DOMAIN assets[i][2] :
          j > 1 => assets[i][2][j - 1][1] < assets[i][2][j][1]

\* A net value: lovelace and one quantity per asset class (the result of
\* Value.add / Value.subtract, zero entries pruned)
NetZero == [lovelace |-> 0, assets |-> [c \in AssetClasses |-> 0]]
ToNet(v) == [lovelace |-> v.lovelace,
             assets |-> [c \in AssetClasses |-> AssetsQty(v.assets, c[1], c[2])]]
NetAdd(a, b) == [lovelace |-> a.lovelace + b.lovelace,
                 assets |-> [c \in AssetClasses |-> a.assets[c] + b.assets[c]]]
NetSub(a, b) == [lovelace |-> a.lovelace - b.lovelace,
                 assets |-> [c \in AssetClasses |-> a.assets[c] - b.assets[c]]]
NetAssetsIsZero(v) == \A c \in AssetClasses : v.assets[c] = 0

RECURSIVE NetSum(_)
NetSum(vs) == IF vs = <<>> THEN NetZero ELSE NetAdd(ToNet(Head(vs)), NetSum(Tail(vs)))

\* Assets.toCbor and Value.toCbor, in bytes
AssetsCborLen(assets) ==
    encodeHeadLen(Len(assets)) +
    SumSeq([i \in DOMAIN assets |->
        encodeBytesLen(HashLen) + encodeHeadLen(Len(assets[i][2])) +
        SumSeq([j \in DOMAIN assets[i][2] |->
            encodeBytesLen(1) + encodeIntLen(assets[i][2][j][2])])])

ValueCborLen(v) ==
    IF AssetsIsZero(v.assets) THEN encodeIntLen(v.lovelace)
    ELSE encodeHeadLen(2) + encodeIntLen(v.lovelace) + AssetsCborLen(v.assets)

-----------------------------------------------------------------------------
(* Addresses, outputs and inputs *)

\* A spending credential: a public-key hash or a validator hash
PubKeyCred(k) == [kind |-> "pubkey", hash |-> k]
ScriptCred(h) == [kind |-> "script", hash |-> h]

pubKeyHash(address) == IF address.kind = "pubkey" THEN address.hash ELSE None
validatorHash(address) == IF address.kind = "script" THEN address.hash ELSE None

\* Address.toCbor: a byte string of the header byte and the credential hash
AddressCborLen(address) == encodeBytesLen(1 + HashLen)

\* TxOutputDatum: None, a hash datum or an inline datum
NoDatum == [kind |-> "none", data |-> 0]
HashDatum(d) == [kind |-> "hash", data |-> d]
InlineDatum(d) == [kind |-> "inline", data |-> d]
datumIsHash(datum) == datum.kind = "hash"

DatumHashCborLen == encodeBytesLen(32)
\* TxOutputDatum.toCbor: [0, hash] or [1, #6.24(bytes)]
DatumCborLen(datum) ==
    IF datum.kind = "hash" THEN encodeHeadLen(2) + encodeIntLen(0) + DatumHashCborLen
    ELSE encodeHeadLen(2) + encodeIntLen(1) + 2 + encodeBytesLen(1 + datum.data)

\* UplcProgram.toCbor of the script with hash h
ScriptCborLen(h) == encodeBytesLen(8 + h)

TxOutputOf(address, value, datum, refScript) ==
    [address |-> address, value |-> value, datum |-> datum, refScript |-> refScript]

\* One field of an encoded output: its key (map form) or position (tuple
\* form), what it holds and its length in bytes
Field(key, what, payload, len) == [key |-> key, what |-> what, payload |-> payload, len |-> len]

FieldsLen(fields, withKeys) ==
    encodeHeadLen(Len(fields)) +
    SumSeq([i \in DOMAIN fields |->
        (IF withKeys THEN encodeIntLen(fields[i].key) ELSE 0) + fields[i].len])

\* TxOutput.toCbor without the configured strictness: the tuple form
\* whenever the output has neither an inline datum nor a reference script
TxOutput_toCborCompact(output, strictBabbage) ==
    LET addressField == Field(0, "address", output.address, AddressCborLen(output.address))
        valueField == Field(1, "value", output.value, ValueCborLen(output.value))
    IN  IF /\ (output.datum.kind = "none" \/ datumIsHash(output.datum))
           /\ output.refScript = None
        THEN LET fields == <<addressField, valueField>> \o
                     (IF datumIsHash(output.datum)
                      THEN <<Field(2, "datumHash", output.datum.data, DatumHashCborLen)>>
                      ELSE <<>>)
             IN  [form |-> "tuple", fields |-> fields, len |-> FieldsLen(fields, FALSE)]
        ELSE LET fields == <<addressField, valueField>> \o
                     (IF output.datum.kind # "none"
                      THEN <<Field(2, "datum", output.datum, DatumCborLen(output.datum))>>
                      ELSE <<>>) \o
                     (IF output.refScript # None
                      THEN <<Field(3, "refScript", output.refScript,
                                   2 + encodeBytesLen(encodeHeadLen(2) + encodeIntLen(2)
                                                      + ScriptCborLen(output.refScript)))>>
                      ELSE <<>>)
             IN  [form |-> "map", fields |-> fields, len |-> FieldsLen(fields, TRUE)]

\* TxOutput.toCbor: the compact tuple form or the map form keyed 0..3
TxOutput_toCbor(output, strictBabbage) ==
    LET addressField == Field(0, "address", output.address, AddressCborLen(output.address))
        valueField == Field(1, "value", output.value, ValueCborLen(output.value))
    IN  IF /\ (output.datum.kind = "none" \/ datumIsHash(output.datum))
           /\ output.refScript = None
           /\ ~strictBabbage
        THEN LET fields == <<addressField, valueField>> \o
                     (IF datumIsHash(output.datum)
                      THEN <<Field(2, "datumHash", output.datum.data, DatumHashCborLen)>>
                      ELSE <<>>)
             IN  [form |-> "tuple", fields |-> fields, len |-> FieldsLen(fields, FALSE)]
        ELSE LET fields == <<addressField, valueField>> \o
                     (IF output.datum.kind # "none"
                      THEN <<Field(2, "datum", output.datum, DatumCborLen(output.datum))>>
                      ELSE <<>>) \o
                     (IF output.refScript # None
                      THEN <<Field(3, "refScript", output.refScript,
                                   2 + encodeBytesLen(encodeHeadLen(2) + encodeIntLen(2)
                                                      + ScriptCborLen(output.refScript)))>>
                      ELSE <<>>)
             IN  [form |-> "map", fields |-> fields, len |-> FieldsLen(fields, TRUE)]

\* the fields of the encoded output in the order written: key (or position)
\* and what each holds
KeysAndKinds(fields) == [j \in DOMAIN fields |-> <<fields[j].key, fields[j].what>>]

TxOutput_fields(output, strictBabbage) ==
    KeysAndKinds(TxOutput_toCbor(output, strictBabbage).fields)

\* TxInput: the id <<txId, utxoIdx>> of the output it spends and that output
TxInputOf(id, output) == [id |-> id, output |-> output]

\* TxInput.compare (TxOutputId.compare): by transaction id, then by index
TxInput_compare(a, b) == ComparePair(a.id, b.id)

TxInputCborLen(input) == encodeHeadLen(2) + encodeBytesLen(32) + encodeIntLen(input.id[2])

\* StakingAddress.compare: by bytes, the header byte first (key before script)
StakingAddress_compare(a, b) ==
    ComparePair(<<IF a.kind = "pubkey" THEN 0 ELSE 1, a.hash>>,
                <<IF b.kind = "pubkey" THEN 0 ELSE 1, b.hash>>)

\* DCert: a stake registration, deregistration or delegation of a credential
isRegister(dcert) == dcert.kind = "register"
isDeregister(dcert) == dcert.kind = "deregister"

-----------------------------------------------------------------------------
(* TxBody and TxWitnesses: encodings, by length, and derived lists *)

\* UplcData.toCbor of the data item d
DataCborLen(d) == encodeBytesLen(d)

RedeemerCborLen(r) ==
    encodeHeadLen(4) + encodeIntLen(0) + encodeIntLen(r.index) + DataCborLen(r.data)
    + encodeHeadLen(2) + encodeIntLen(r.cost.mem) + encodeIntLen(r.cost.cpu)

SignatureCborLen == encodeHeadLen(2) + encodeBytesLen(32) + encodeBytesLen(64)

\* one entry of a CBOR map whose key is below 24: key byte, list head, items
ListEntryLen(lens) ==
    IF lens = <<>> THEN 0 ELSE 1 + encodeHeadLen(Len(lens)) + SumSeq(lens)
EntryCount(lens) == IF lens = <<>> THEN 0 ELSE 1

\* TxWitnesses.toCbor: signatures, native scripts, datums, redeemers, scripts
\* (reference scripts are not part of the witnesses on the wire)
TxWitnessesCborLen(w) ==
    LET lists == << [i \in DOMAIN w.signatures |-> SignatureCborLen],
                    [i \in DOMAIN w.nativeScripts |-> ScriptCborLen(w.nativeScripts[i])],
                    [i \in DOMAIN w.datums |-> DataCborLen(w.datums[i])],
                    [i \in DOMAIN w.redeemers |-> RedeemerCborLen(w.redeemers[i])],
                    [i \in DOMAIN w.scripts |-> ScriptCborLen(w.scripts[i])] >>
    IN  encodeHeadLen(SumSeq([i \in DOMAIN lists |-> EntryCount(lists[i])]))
        + SumSeq([i \in DOMAIN lists |-> ListEntryLen(lists[i])])

\* TxBody.toCbor: inputs, outputs and fee always, every other field if set
TxBodyCborLen(b, strictBabbage) ==
    LET lists == << [i \in DOMAIN b.refInputs |-> TxInputCborLen(b.refInputs[i])],
                    [i \in DOMAIN b.collateral |-> TxInputCborLen(b.collateral[i])],
                    [i \in DOMAIN b.signers |-> encodeBytesLen(HashLen)],
                    [i \in DOMAIN b.dcerts |-> encodeHeadLen(2) + 1 + encodeHeadLen(2) + 1
                                                + encodeBytesLen(HashLen)],
                    [i \in DOMAIN b.withdrawals |->
                        encodeBytesLen(1 + HashLen) + encodeIntLen(b.withdrawals[i][2])],
                    [i \in DOMAIN b.collateralReturn |->
                        TxOutput_toCbor(b.collateralReturn[i], strictBabbage).len] >>
        hashes == (IF b.scriptDataHash # <<>> THEN 1 ELSE 0)
                  + (IF b.metadataHash # None THEN 1 ELSE 0)
        minted == IF b.minted = NoAssets THEN 0 ELSE 1
    IN  encodeHeadLen(3 + hashes + minted
                      + SumSeq([i \in DOMAIN lists |-> EntryCount(lists[i])]))
        + 1 + encodeHeadLen(Len(b.inputs))
            + SumSeq([i \in DOMAIN b.inputs |-> TxInputCborLen(b.inputs[i])])
        + 1 + encodeHeadLen(Len(b.outputs))
            + SumSeq([i \in DOMAIN b.outputs |->
                        TxOutput_toCbor(b.outputs[i], strictBabbage).len])
        + 1 + encodeIntLen(b.fee)
        + hashes * (1 + encodeBytesLen(32))
        + minted * (1 + AssetsCborLen(b.minted))
        + SumSeq([i \in DOMAIN lists |-> ListEntryLen(lists[i])])

\* TxMetadata.toCbor of the metadata blob m
TxMetadataCborLen(m) == encodeHeadLen(1) + encodeIntLen(0) + encodeBytesLen(m)

\* TxMetadata.hash: blake2b of the encoding, one hash per blob
MetadataHash(m) == 100 + m

\* Address and script accessors of the body
\* TxBody.allScriptHashes: the unique script hashes of inputs, minted
\* policies, certificates and withdrawals, each once
allScriptHashes(b) ==
    LET all == [i \in DOMAIN b.inputs |-> validatorHash(b.inputs[i].output.address)]
               \o getPolicies(b.minted)
               \o [i \in DOMAIN b.dcerts |-> validatorHash(b.dcerts[i].cred)]
               \o [i \in DOMAIN b.withdrawals |-> validatorHash(b.withdrawals[i][1])]
    IN  SelectSeq([i \in DOMAIN all |->
                      IF all[i] # None /\ \A j \in 1..(i - 1) : all[j] # all[i]
                      THEN all[i] ELSE None],
                  LAMBDA h : h # None)

\* TxBody.countUniqueSigners: the distinct key hashes among the required
\* signers and the key credentials of the inputs and the collateral
countUniqueSigners(b) ==
    Cardinality((Range(b.signers)
        \cup {pubKeyHash(b.inputs[i].output.address) : i \in DOMAIN b.inputs}
        \cup {pubKeyHash(b.collateral[i].output.address) : i \in DOMAIN b.collateral})
        \ {None})

\* TxWitnesses.allScripts: the hashes of all attached scripts, in list order
allScripts(w) == w.nativeScripts \o w.scripts \o w.refScripts

\* TxWitnesses.isSmart: a Plutus script is attached or referenced
isSmart(w) == Len(w.scripts) + Len(w.refScripts) > 0

\* TxWitnesses.countNonDummySignatures
countNonDummySignatures(w) ==
    Cardinality({i \in DOMAIN w.signatures : ~w.signatures[i].dummy})

-----------------------------------------------------------------------------
(* NetworkParamsHelper: the derived quantities of a parameter snapshot.    *)
(* A price is a fraction <<numerator, denominator>>.                       *)

txFeeParams(p) == <<p.txFeeFixed, p.txFeePerByte>>
exFeeParams(p) == <<p.executionUnitPrices.priceMemory, p.executionUnitPrices.priceSteps>>
lovelacePerUTXOByte(p) == p.utxoCostPerByte
minCollateralPct(p) == p.collateralPercentage
maxCollateralInputs(p) == p.maxCollateralInputs
maxTxExecutionBudget(p) == <<p.maxTxExecutionUnits.memory, p.maxTxExecutionUnits.steps>>
maxTxSize(p) == p.maxTxSize
stakeAddressDeposit(p) == p.stakeAddressDeposit

\* sortedV2CostParams: the cost-model values in ascending order of their keys
\* (the cost model is a list of <<key, value>> with distinct keys)
sortedV2CostParams(p) ==
    LET m == p.costModel
        rank(i) == Cardinality({j \in DOMAIN m : m[j][1] < m[i][1]}) + 1
    IN  [r \in DOMAIN m |-> m[CHOOSE i \in DOMAIN m : rank(i) = r][2]]

-----------------------------------------------------------------------------
(* Tx: encoding and size *)

Item(what, payload, len) == [what |-> what, payload |-> payload, len |-> len]

\* encodeTuple: the items behind a list head
TupleLen(items) == encodeHeadLen(Len(items)) + SumSeq([i \in DOMAIN items |-> items[i].len])

\* TxBody.toCbor: inputs go on the wire as ids only
TxBody_toCbor(b, strictBabbage) ==
    Item("TxBody",
         [body |-> [b EXCEPT !.synced = FALSE],
          forms |-> [i \in DOMAIN b.outputs |-> TxOutput_toCbor(b.outputs[i], strictBabbage).form],
          fields |-> [i \in DOMAIN b.outputs |-> TxOutput_fields(b.outputs[i], strictBabbage)]],
         TxBodyCborLen(b, strictBabbage))

\* TxWitnesses.toCbor: reference scripts stay in the reference inputs
TxWitnesses_toCbor(w) ==
    Item("TxWitnesses", [w EXCEPT !.refScripts = <<>>], TxWitnessesCborLen(w))

\* encodeNullOption(metadata)
encodeNullOption(m) ==
    IF m = None THEN Item("null", None, 1) ELSE Item("TxMetadata", m, TxMetadataCborLen(m))
decodeNullOption(item) == IF item.what = "null" THEN None ELSE item.payload

\* Tx.toCbor: [body, witnesses, true, metadata], or without the boolean when
\* the size is wanted for the fee
Tx_toCbor(t, forFeeCalculation, strictBabbage) ==
    IF forFeeCalculation
    THEN << TxBody_toCbor(t.body, strictBabbage),
            TxWitnesses_toCbor(t.witnesses),
            encodeNullOption(t.metadata) >>
    ELSE << TxBody_toCbor(t.body, strictBabbage),
            TxWitnesses_toCbor(t.witnesses),
            Item("bool", encodeBool(TRUE), 1),
            encodeNullOption(t.metadata) >>

\* the constructor
NewTx(body, witnesses, valid, metadata) ==
    [body |-> body, witnesses |-> witnesses, valid |-> valid, metadata |-> metadata]

\* decodeTuple with four item decoders accepts a list of exactly four items
\* of the expected kinds
Tx_fromCborAccepts(bytes) ==
    /\ Len(bytes) = 4
    /\ bytes[1].what = "TxBody"
    /\ bytes[2].what = "TxWitnesses"
    /\ bytes[3].what = "bool"
    /\ bytes[4].what \in {"null", "TxMetadata"}

\* Tx.fromCbor
Tx_fromCbor(bytes) ==
    NewTx(bytes[1].payload.body, bytes[2].payload,
          decodeBool(bytes[3].payload), decodeNullOption(bytes[4]))

DummySignature == [pubKeyHash |-> None, dummy |-> TRUE]

\* TxWitnesses.addDummySignatures: n placeholders appended (none for n <= 0)
addDummySignatures(w, n) ==
    IF n <= 0 THEN w
    ELSE [w EXCEPT !.signatures = @ \o [i \in 1..n |-> DummySignature]]

\* TxWitnesses.removeDummySignatures: the first n placeholders taken out
removeDummySignatures(w, n) ==
    LET sigs == w.signatures
        dummiesUpTo(i) == Cardinality({j \in 1..i : sigs[j].dummy})
        keep == {i \in DOMAIN sigs : ~(sigs[i].dummy /\ dummiesUpTo(i) <= n)}
        nth(k) == CHOOSE i \in keep : Cardinality({j \in keep : j < i}) = k - 1
    IN  [w EXCEPT !.signatures = [k \in 1..Cardinality(keep) |-> sigs[nth(k)]]]

\* TxBody.countUniqueSigners, with one signer assumed for every input whose
\* output is not known
countSigners(b) ==
    IF b.synced THEN countUniqueSigners(b)
    ELSE Cardinality(Range(b.signers)) + Len(b.inputs) + Len(b.collateral)

\* Tx.countMissingSignatures
countMissingSignatures(t) == countSigners(t.body) - countNonDummySignatures(t.witnesses)

\* Tx.calcSize: the witnesses while the size is measured, and the size
calcSizeWitnesses(t, forFeeCalculation) ==
    IF forFeeCalculation
    THEN addDummySignatures(t.witnesses, countMissingSignatures(t))
    ELSE t.witnesses

calcSize(t, forFeeCalculation, strictBabbage) ==
    TupleLen(Tx_toCbor([t EXCEPT !.witnesses = calcSizeWitnesses(t, forFeeCalculation)],
                       forFeeCalculation, strictBabbage))

\* calcSize without its call of removeDummySignatures
calcSizeAfterMeasuring(t, forFeeCalculation) == calcSizeWitnesses(t, forFeeCalculation)

\* the witnesses calcSize leaves behind
calcSizeAfter(t, forFeeCalculation) ==
    IF forFeeCalculation
    THEN removeDummySignatures(calcSizeWitnesses(t, forFeeCalculation),
                               countMissingSignatures(t))
    ELSE t.witnesses

\* TxWitnesses.calcExFee: ceil(total mem * price + total cpu * price)
calcExFee(w, p) ==
    LET totalMem == SumSeq([i \in DOMAIN w.redeemers |-> w.redeemers[i].cost.mem])
        totalCpu == SumSeq([i \in DOMAIN w.redeemers |-> w.redeemers[i].cost.cpu])
        pm == exFeeParams(p)[1]
        ps == exFeeParams(p)[2]
    IN  CeilDiv(totalMem * pm[1] * ps[2] + totalCpu * ps[1] * pm[2], pm[2] * ps[2])

\* Tx.calcMinFee
calcMinFee(t, p, strictBabbage) ==
    LET a == txFeeParams(p)[1]
        b == txFeeParams(p)[2]
        sizeFee == a + calcSize(t, TRUE, strictBabbage) * b
        exFee == calcExFee(t.witnesses, p)
    IN  sizeFee + exFee

\* Tx.calcMinCollateral without recalcMinBaseFee
calcMinCollateral(t, p) == (t.body.fee * minCollateralPct(p) + 100) \div 100

-----------------------------------------------------------------------------
(* The private checks of Tx.validate.  Each returns "ok" or the error it   *)
(* throws.  Reading the output of an input that was decoded and not yet    *)
(* recovered throws.                                                       *)

NotSynced == "TxInput original output not synced"

\* the first error of a list of results, "ok" when there is none
FirstError(errs) ==
    IF \E i \in DOMAIN errs : errs[i] # "ok"
    THEN errs[CHOOSE i \in DOMAIN errs :
                 errs[i] # "ok" /\ \A j \in 1..(i - 1) : errs[j] = "ok"]
    ELSE "ok"

\* Tx.validateSize
validateSize(t, p, strictBabbage) ==
    IF calcSize(t, FALSE, strictBabbage) > maxTxSize(p) THEN "tx too big" ELSE "ok"

\* validateFee refusing a fee equal to the minimum
validateFeeAbove(t, p, strictBabbage) ==
    IF calcMinFee(t, p, strictBabbage) >= t.body.fee THEN "fee too small" ELSE "ok"

\* Tx.validateFee
validateFee(t, p, strictBabbage) ==
    LET minFee == calcMinFee(t, p, strictBabbage)
    IN  IF minFee > t.body.fee THEN "fee too small" ELSE "ok"

\* the net value without the deposits of registration certificates
conservationNetRefundsOnly(b, p) ==
    LET nDeregister == Cardinality({i \in DOMAIN b.dcerts : isDeregister(b.dcerts[i])})
        v1 == NetSum([i \in DOMAIN b.inputs |-> b.inputs[i].output.value])
        v2 == [v1 EXCEPT !.lovelace = @ + nDeregister * stakeAddressDeposit(p)]
        v3 == NetSub(v2, ToNet(Lovelace(b.fee)))
        v4 == NetAdd(v3, ToNet([lovelace |-> 0, assets |-> b.minted]))
    IN  NetSub(v4, NetSum([i \in DOMAIN b.outputs |-> b.outputs[i].value]))

\* the net value validateConservation computes
conservationNet(b, p) ==
    LET deposit == [NetZero EXCEPT !.lovelace = stakeAddressDeposit(p)]
        nDeregister == Cardinality({i \in DOMAIN b.dcerts : isDeregister(b.dcerts[i])})
        nRegister == Cardinality({i \in DOMAIN b.dcerts : isRegister(b.dcerts[i])})
        v1 == NetSum([i \in DOMAIN b.inputs |-> b.inputs[i].output.value])
        v2 == [v1 EXCEPT !.lovelace = @ + nDeregister * deposit.lovelace]
        v3 == NetSub(v2, ToNet(Lovelace(b.fee)))
        v4 == NetAdd(v3, ToNet([lovelace |-> 0, assets |-> b.minted]))
        v5 == NetSub(v4, NetSum([i \in DOMAIN b.outputs |-> b.outputs[i].value]))
    IN  [v5 EXCEPT !.lovelace = @ - nRegister * deposit.lovelace]

\* Tx.validateConservation
validateConservation(t, p) ==
    IF ~t.body.synced /\ t.body.inputs # <<>> THEN NotSynced
    ELSE LET v == conservationNet(t.body, p)
         IN  IF v.lovelace # 0 THEN "tx not balanced, net lovelace not zero"
             ELSE IF ~NetAssetsIsZero(v) THEN "tx not balanced, net assets not zero"
             ELSE "ok"

\* validateCollateral with the minimum rounded down
validateCollateralFloor(t, p) ==
    LET b == t.body
        minCollateral == (minCollateralPct(p) * b.fee) \div 100
        sum == NetSub(NetSum([i \in DOMAIN b.collateral |-> b.collateral[i].output.value]),
                      NetSum([i \in DOMAIN b.collateralReturn |-> b.collateralReturn[i].value]))
    IN  IF Len(b.collateral) > maxCollateralInputs(p) THEN "too many collateral inputs"
        ELSE IF isSmart(t.witnesses)
        THEN IF ~b.synced /\ b.collateral # <<>>
             THEN "expected collateral TxInput.origOutput to be set"
             ELSE IF \E i \in DOMAIN b.collateral :
                        ~AssetsIsZero(b.collateral[i].output.value.assets)
             THEN "collateral can only contain lovelace"
             ELSE IF sum.lovelace < minCollateral THEN "not enough collateral"
             ELSE "ok"
        ELSE IF Len(b.collateral) # 0 THEN "unnecessary collateral included"
        ELSE "ok"

\* Tx.validateCollateral
validateCollateral(t, p) ==
    LET b == t.body
        minCollateral == CeilDiv(minCollateralPct(p) * b.fee, 100)
        sum == NetSub(NetSum([i \in DOMAIN b.collateral |-> b.collateral[i].output.value]),
                      NetSum([i \in DOMAIN b.collateralReturn |-> b.collateralReturn[i].value]))
    IN  IF Len(b.collateral) > maxCollateralInputs(p) THEN "too many collateral inputs"
        ELSE IF isSmart(t.witnesses)
        THEN IF ~b.synced /\ b.collateral # <<>>
             THEN "expected collateral TxInput.origOutput to be set"
             ELSE IF \E i \in DOMAIN b.collateral :
                        ~AssetsIsZero(b.collateral[i].output.value.assets)
             THEN "collateral can only contain lovelace"
             ELSE IF sum.lovelace < minCollateral THEN "not enough collateral"
             ELSE "ok"
        ELSE IF Len(b.collateral) # 0 THEN "unnecessary collateral included"
        ELSE "ok"

\* the warning validateCollateral prints
collateralWarning(t, p) ==
    LET b == t.body
        minCollateral == CeilDiv(minCollateralPct(p) * b.fee, 100)
        sum == NetSub(NetSum([i \in DOMAIN b.collateral |-> b.collateral[i].output.value]),
                      NetSum([i \in DOMAIN b.collateralReturn |-> b.collateralReturn[i].value]))
    IN  validateCollateral(t, p) = "ok" /\ isSmart(t.witnesses)
        /\ sum.lovelace > minCollateral * 5

\* validateScriptsPresent looking for missing scripts in strict mode only
validateScriptsPresentLax(t, strict) ==
    LET scripts == allScripts(t.witnesses)
        includedScriptHashes == Range(scripts)
        requiredScriptHashes == allScriptHashes(t.body)
    IN  IF Len(scripts) # Cardinality(includedScriptHashes)
        THEN "duplicate scripts included in transaction"
        ELSE IF ~t.body.synced /\ t.body.inputs # <<>> THEN NotSynced
        ELSE IF Len(requiredScriptHashes) < Cardinality(includedScriptHashes)
        THEN "too many scripts included, not all are needed"
        ELSE IF strict /\ \E i \in DOMAIN requiredScriptHashes :
                    requiredScriptHashes[i] \notin includedScriptHashes
        THEN "missing script"
        ELSE IF strict /\ \E h \in includedScriptHashes : h \notin Range(requiredScriptHashes)
        THEN "detected unused script"
        ELSE "ok"

\* Tx.validateScriptsPresent
validateScriptsPresent(t, strict) ==
    LET scripts == allScripts(t.witnesses)
        includedScriptHashes == Range(scripts)
        requiredScriptHashes == allScriptHashes(t.body)
    IN  IF Len(scripts) # Cardinality(includedScriptHashes)
        THEN "duplicate scripts included in transaction"
        ELSE IF ~t.body.synced /\ t.body.inputs # <<>> THEN NotSynced
        ELSE IF Len(requiredScriptHashes) < Cardinality(includedScriptHashes)
        THEN "too many scripts included, not all are needed"
        ELSE IF \E i \in DOMAIN requiredScriptHashes :
                    requiredScriptHashes[i] \notin includedScriptHashes
        THEN "missing script"
        ELSE IF strict /\ \E h \in includedScriptHashes : h \notin Range(requiredScriptHashes)
        THEN "detected unused script"
        ELSE "ok"

\* TxWitnesses.findUplcProgram: an attached or referenced Plutus script
findUplcProgram(w, hash) ==
    IF hash \in Range(w.scripts) \cup Range(w.refScripts) THEN hash ELSE None

ExpectSome == "expected Some, got None"

\* TxOutputId.toString: transaction id and output index
TxOutputId_toString(id) == ToString(id[1]) \o "#" \o ToString(id[2])

\* MintingPolicyHash.toHex
toHex(hash) == ToString(hash)

\* the comparisons of redeemerBudget with a budget that has to be strictly
\* higher than what is measured
redeemerBudgetAtLeast(cost, redeemer, what) ==
    IF cost.mem >= redeemer.cost.mem
    THEN "actual mem cost for " \o what \o " too high"
    ELSE IF cost.cpu >= redeemer.cost.cpu
    THEN "actual cpu cost for " \o what \o " too high"
    ELSE "ok"

\* the two comparisons of the measured cost with the redeemer's declared
\* cost; what names the script's purpose in the error
redeemerBudget(cost, redeemer, what) ==
    IF cost.mem > redeemer.cost.mem
    THEN "actual mem cost for " \o what \o " too high"
    ELSE IF cost.cpu > redeemer.cost.cpu
    THEN "actual cpu cost for " \o what \o " too high"
    ELSE "ok"

\* one redeemer of validateRedeemersExBudget; cost is what the VM measures
validateRedeemer(t, redeemer, cost) ==
    LET b == t.body
    IN  IF redeemer.kind = "spending"
        THEN IF redeemer.index + 1 \notin DOMAIN b.inputs THEN ExpectSome
             ELSE IF ~b.synced THEN NotSynced
             ELSE LET utxo == b.inputs[redeemer.index + 1]
                  IN  IF validatorHash(utxo.output.address) = None THEN ExpectSome
                      ELSE IF findUplcProgram(t.witnesses,
                                  validatorHash(utxo.output.address)) = None
                      THEN ExpectSome
                      ELSE IF utxo.output.datum.kind = "none" THEN ExpectSome
                      ELSE redeemerBudget(cost, redeemer,
                               "spending UTxO " \o TxOutputId_toString(utxo.id))
        ELSE IF redeemer.kind = "minting"
        THEN IF redeemer.index + 1 \notin DOMAIN getPolicies(b.minted) THEN ExpectSome
             ELSE IF findUplcProgram(t.witnesses,
                         getPolicies(b.minted)[redeemer.index + 1]) = None
             THEN ExpectSome
             ELSE redeemerBudget(cost, redeemer,
                      "minting " \o toHex(getPolicies(b.minted)[redeemer.index + 1]))
        ELSE "unhandled TxRedeemer kind"

\* Tx.validateRedeemersExBudget: the redeemers in list order
validateRedeemersExBudget(t, cost) ==
    IF ~t.body.synced /\ t.body.inputs \o t.body.refInputs # <<>> THEN NotSynced
    ELSE FirstError([i \in DOMAIN t.witnesses.redeemers |->
                   validateRedeemer(t, t.witnesses.redeemers[i], cost)])

\* validateTotalExBudget that throws where the code only warns
validateTotalExBudgetHalf(t, p) ==
    LET w == t.witnesses
        totalMem == SumSeq([i \in DOMAIN w.redeemers |-> w.redeemers[i].cost.mem])
        totalCpu == SumSeq([i \in DOMAIN w.redeemers |-> w.redeemers[i].cost.cpu])
    IN  IF totalMem > maxTxExecutionBudget(p)[1] \div 2 THEN "execution budget exceeded for mem"
        ELSE IF totalCpu > maxTxExecutionBudget(p)[2] \div 2
        THEN "execution budget exceeded for cpu"
        ELSE "ok"

\* Tx.validateTotalExBudget
validateTotalExBudget(t, p) ==
    LET w == t.witnesses
        totalMem == SumSeq([i \in DOMAIN w.redeemers |-> w.redeemers[i].cost.mem])
        totalCpu == SumSeq([i \in DOMAIN w.redeemers |-> w.redeemers[i].cost.cpu])
    IN  IF totalMem > maxTxExecutionBudget(p)[1] THEN "execution budget exceeded for mem"
        ELSE IF totalCpu > maxTxExecutionBudget(p)[2] THEN "execution budget exceeded for cpu"
        ELSE "ok"

\* the warnings validateTotalExBudget prints when verbose: usage over half
\* of the maximum that is not over the maximum
totalExBudgetWarnings(t, p, verbose) ==
    LET w == t.witnesses
        totalMem == SumSeq([i \in DOMAIN w.redeemers |-> w.redeemers[i].cost.mem])
        totalCpu == SumSeq([i \in DOMAIN w.redeemers |-> w.redeemers[i].cost.cpu])
        maxMem == maxTxExecutionBudget(p)[1]
        maxCpu == maxTxExecutionBudget(p)[2]
    IN  IF totalMem > maxMem THEN {}
        ELSE (IF verbose /\ totalMem > maxMem \div 2
              THEN {"Warning: mem usage >= 50% of max mem budget"} ELSE {})
             \cup (IF totalCpu <= maxCpu /\ verbose /\ totalCpu > maxCpu \div 2
                   THEN {"Warning: cpu usage >= 50% of max cpu budget"} ELSE {})

\* TxOutput.calcDeposit
calcDeposit(output, p, strictBabbage) ==
    LET correctedSize == TxOutput_toCbor(output, strictBabbage).len + 160
    IN  correctedSize * lovelacePerUTXOByte(p)

\* validateOutputs that wants more lovelace than the deposit
validateOutputsAbove(t, p, strict, strictBabbage) ==
    FirstError([i \in DOMAIN t.body.outputs |->
        LET output == t.body.outputs[i]
        IN  IF calcDeposit(output, p, strictBabbage) >= output.value.lovelace
            THEN "not enough lovelace in output"
            ELSE IF strict /\ ~AssetsSorted(output.value.assets) THEN "assets not sorted"
            ELSE "ok"])

\* Tx.validateOutputs: the outputs in list order
validateOutputs(t, p, strict, strictBabbage) ==
    FirstError([i \in DOMAIN t.body.outputs |->
        LET output == t.body.outputs[i]
        IN  IF calcDeposit(output, p, strictBabbage) > output.value.lovelace
            THEN "not enough lovelace in output"
            ELSE IF strict /\ ~AssetsSorted(output.value.assets) THEN "assets not sorted"
            ELSE "ok"])

\* validateInputsOrder that lets two equal neighbours pass
validateInputsOrderLoose(t) ==
    LET inputs == t.body.inputs
    IN  IF \E i \in DOMAIN inputs : i > 1 /\ TxInput_compare(inputs[i - 1], inputs[i]) > 0
        THEN "inputs aren't sorted" ELSE "ok"

\* Tx.validateInputsOrder
validateInputsOrder(t) ==
    LET inputs == t.body.inputs
    IN  IF \E i \in DOMAIN inputs : i > 1 /\ TxInput_compare(inputs[i - 1], inputs[i]) >= 0
        THEN "inputs aren't sorted" ELSE "ok"

\* Tx.validateRefInputsOrder
validateRefInputsOrder(t) ==
    LET inputs == t.body.refInputs
    IN  IF \E i \in DOMAIN inputs : i > 1 /\ TxInput_compare(inputs[i - 1], inputs[i]) >= 0
        THEN "refInputs not sorted" ELSE "ok"

\* Tx.validateMintedOrder
validateMintedOrder(t) == IF AssetsSorted(t.body.minted) THEN "ok" ELSE "assets not sorted"

\* Tx.validateWithdrawalsOrder
validateWithdrawalsOrder(t) ==
    LET ws == t.body.withdrawals
    IN  IF \E i \in DOMAIN ws : i > 1 /\ StakingAddress_compare(ws[i - 1][1], ws[i][1]) >= 0
        THEN "withdrawals not sorted" ELSE "ok"

\* validateMetadata that looks at the presence of the hash only
validateMetadataPresence(t) ==
    IF t.metadata # None
    THEN IF t.body.metadataHash # None THEN "ok"
         ELSE "metadataHash not included in a Tx that has metadata"
    ELSE IF t.body.metadataHash # None
         THEN "metadataHash included in a Tx that doesn't have any metadata"
         ELSE "ok"

\* Tx.validateMetadata
validateMetadata(t) ==
    IF t.metadata # None
    THEN IF t.body.metadataHash # None
         THEN IF MetadataHash(t.metadata) # t.body.metadataHash
              THEN "metadataHash doesn't correspond with actual metadata"
              ELSE "ok"
         ELSE "metadataHash not included in a Tx that has metadata"
    ELSE IF t.body.metadataHash # None
         THEN "metadataHash included in a Tx that doesn't have any metadata"
         ELSE "ok"

\* blake2b: one digest per byte string
blake2b(bytes) == [digestOf |-> bytes]

\* the bytes of calcScriptDataHash with the datum list in them even when
\* it is empty
scriptDataBytesWithDatums(p, datums, redeemers) ==
    <<redeemers>> \o <<datums>> \o << <<1, sortedV2CostParams(p)>> >>

\* the bytes calcScriptDataHash hashes
scriptDataBytes(p, datums, redeemers) ==
    <<redeemers>> \o (IF Len(datums) > 0 THEN <<datums>> ELSE <<>>)
    \o << <<1, sortedV2CostParams(p)>> >>

\* calcScriptDataHash: "ok" is never a digest
calcScriptDataHashFails(redeemers) == Len(redeemers) = 0
calcScriptDataHash(p, datums, redeemers) == blake2b(scriptDataBytes(p, datums, redeemers))

\* Tx.validateScriptDataHash (body.scriptDataHash is <<>> or <<digest>>)
validateScriptDataHash(t, p) ==
    IF Len(t.witnesses.redeemers) > 0
    THEN IF t.body.scriptDataHash # <<>>
         THEN IF calcScriptDataHash(p, t.witnesses.datums, t.witnesses.redeemers)
                    # t.body.scriptDataHash[1]
              THEN "wrong script data hash"
              ELSE "ok"
         ELSE "no script data hash included for a Tx that has redeemers"
    ELSE IF t.body.scriptDataHash # <<>>
         THEN "script data hash included for a Tx that has no redeemers"
         ELSE "ok"

-----------------------------------------------------------------------------
(* Tx.validate: the checks in the order the method calls them; the first   *)
(* error ends the call                                                     *)

ValidateOrder ==
    << "validateSize", "validateFee", "validateConservation", "validateCollateral",
       "validateScriptsPresent", "validateRedeemersExBudget", "validateTotalExBudget",
       "validateOutputs", "validateInputsOrder", "validateRefInputsOrder",
       "validateMintedOrder", "validateWithdrawalsOrder", "validateMetadata",
       "validateScriptDataHash" >>

\* the result of one private check on t
runCheck(name, t, p, strict, strictBabbage, cost) ==
    CASE name = "validateSize" -> validateSize(t, p, strictBabbage)
      [] name = "validateFee" -> validateFee(t, p, strictBabbage)
      [] name = "validateConservation" -> validateConservation(t, p)
      [] name = "validateCollateral" -> validateCollateral(t, p)
      [] name = "validateScriptsPresent" -> validateScriptsPresent(t, strict)
      [] name = "validateRedeemersExBudget" -> validateRedeemersExBudget(t, cost)
      [] name = "validateTotalExBudget" -> validateTotalExBudget(t, p)
      [] name = "validateOutputs" -> validateOutputs(t, p, strict, strictBabbage)
      [] name = "validateInputsOrder" -> validateInputsOrder(t)
      [] name = "validateRefInputsOrder" -> validateRefInputsOrder(t)
      [] name = "validateMintedOrder" -> validateMintedOrder(t)
      [] name = "validateWithdrawalsOrder" -> validateWithdrawalsOrder(t)
      [] name = "validateMetadata" -> validateMetadata(t)
      [] name = "validateScriptDataHash" -> validateScriptDataHash(t, p)

\* the calls of `order` made one after the other from the i-th on, until
\* one throws: [err |-> "ok" or the error, ran |-> the checks that were started]
RECURSIVE runChecksFrom(_, _, _, _, _, _, _)
stopAtError(e, order, i, t, p, strict, strictBabbage, cost) ==
    IF e # "ok" THEN [err |-> e, ran |-> SubSeq(order, 1, i)]
    ELSE runChecksFrom(order, i + 1, t, p, strict, strictBabbage, cost)

runChecksFrom(order, i, t, p, strict, strictBabbage, cost) ==
    IF i > Len(order) THEN [err |-> "ok", ran |-> order]
    ELSE stopAtError(runCheck(order[i], t, p, strict, strictBabbage, cost),
                     order, i, t, p, strict, strictBabbage, cost)

runChecks(order, t, p, strict, strictBabbage, cost) ==
    runChecksFrom(order, 1, t, p, strict, strictBabbage, cost)

\* validate with the size and the fee check exchanged
validateFeeFirst(t, p, strict, strictBabbage, cost) ==
    runChecks(<<ValidateOrder[2], ValidateOrder[1]>> \o SubSeq(ValidateOrder, 3, Len(ValidateOrder)),
              t, p, strict, strictBabbage, cost)

\* validate refusing an unsigned Tx, as addSignature does
validateIfSigned(t, p, strict, strictBabbage, cost) ==
    IF ~t.valid THEN [err |-> "invalid Tx", ran |-> <<>>]
    ELSE runChecks(ValidateOrder, t, p, strict, strictBabbage, cost)

\* Tx.validate
validate(t, p, strict, strictBabbage, cost) ==
    runChecks(ValidateOrder, t, p, strict, strictBabbage, cost)

\* validateSignatures asking no signature of the collateral inputs
validateSignaturesOfInputs(t) ==
    LET signatures == t.witnesses.signatures
        includedSigners == {signatures[i].pubKeyHash : i \in DOMAIN signatures}
        utxos == t.body.inputs
    IN  IF \E i \in DOMAIN t.body.signers : t.body.signers[i] \notin includedSigners
        THEN "signature for signer missing"
        ELSE IF ~t.body.synced /\ utxos # <<>> THEN NotSynced
        ELSE IF \E i \in DOMAIN utxos :
                  /\ pubKeyHash(utxos[i].output.address) # None
                  /\ pubKeyHash(utxos[i].output.address) \notin includedSigners
        THEN "signature for input missing"
        ELSE "ok"

\* Tx.validateSignatures: "ok" or the error thrown
validateSignatures(t) ==
    LET signatures == t.witnesses.signatures
        includedSigners == {signatures[i].pubKeyHash : i \in DOMAIN signatures}
        utxos == t.body.inputs \o t.body.collateral
    IN  IF \E i \in DOMAIN t.body.signers : t.body.signers[i] \notin includedSigners
        THEN "signature for signer missing"
        ELSE IF ~t.body.synced /\ utxos # <<>> THEN NotSynced
        ELSE IF \E i \in DOMAIN utxos :
                  /\ pubKeyHash(utxos[i].output.address) # None
                  /\ pubKeyHash(utxos[i].output.address) \notin includedSigners
        THEN "signature for input missing"
        ELSE "ok"

\* TxWitnesses.addSignature: a signature of a key that signed already is
\* not added again
witnessesAddSignature(w, signature) ==
    IF \E i \in DOMAIN w.signatures : w.signatures[i].pubKeyHash = signature.pubKeyHash
    THEN w
    ELSE [w EXCEPT !.signatures =
             Append(@, [pubKeyHash |-> signature.pubKeyHash, dummy |-> FALSE])]

\* Tx.addSignature: [err, tx]
addSignature(t, signature, verify) ==
    IF ~t.valid THEN [err |-> "invalid Tx", tx |-> t]
    ELSE IF verify /\ ~signature.good THEN [err |-> "invalid signature", tx |-> t]
    ELSE [err |-> "ok",
          tx |-> [t EXCEPT !.witnesses = witnessesAddSignature(@, signature)]]

\* Tx.addSignatures: the signatures one by one until one throws
RECURSIVE addSignatures(_, _, _)
addSignatures(t, signatures, verify) ==
    IF signatures = <<>> THEN [err |-> "ok", tx |-> t]
    ELSE LET r == addSignature(t, Head(signatures), verify)
         IN  IF r.err # "ok" THEN r ELSE addSignatures(r.tx, Tail(signatures), verify)

\* clearMetadata handing back a Tx marked as signed
clearMetadataSigned(t) == NewTx(t.body, t.witnesses, TRUE, None)

\* Tx.clearMetadata
clearMetadata(t) == NewTx(t.body, t.witnesses, t.valid, None)

\* Tx.isValid
isValid(t) == t.valid

\* TxWitnesses.recover: the reference scripts not yet known are added
witnessesRecover(w, refScripts) ==
    [w EXCEPT !.refScripts =
        @ \o SelectSeq([i \in DOMAIN refScripts |->
                           IF refScripts[i] \notin Range(@)
                              /\ \A j \in 1..(i - 1) : refScripts[j] # refScripts[i]
                           THEN refScripts[i] ELSE None],
                       LAMBDA h : h # None)]

\* Tx.recover with a network that knows every input
recover(t) ==
    LET refScriptsInRefInputs ==
            SelectSeq([i \in DOMAIN t.body.refInputs |-> t.body.refInputs[i].output.refScript],
                      LAMBDA h : h # None)
    IN  [t EXCEPT !.body.synced = TRUE,
                  !.witnesses = witnessesRecover(@, refScriptsInRefInputs)]

-----------------------------------------------------------------------------
(* PubKeyHash (hashes/PubKeyHash.js) and ValidatorHash                     *)
(* (hashes/ValidatorHash.js): a byte string is a sequence of bytes; a      *)
(* constructor returns [err, hash], hash being <<>> or <<the hash>>        *)

\* n bytes of value b
Bytes(n, b) == [i \in 1..n |-> b]

\* encodeBytes and decodeBytes of @helios-lang/cbor
encodeBytes(bytes) == Item("bytes", bytes, encodeBytesLen(Len(bytes)))
decodeBytes(item) == item.payload

\* ByteArrayData of @helios-lang/uplc, its CBOR encoding and decodeUplcData
ByteArrayData(bytes) == [kind |-> "ByteArrayData", bytes |-> bytes]
ByteArrayData_expect(data) == data.bytes
UplcData_toCbor(data) == Item("UplcData", data, encodeBytesLen(Len(data.bytes)))
decodeUplcData(item) == item.payload

\* new PubKeyHash(bytes) that takes shorter byte strings as well
PubKeyHash_newAtMost(bytes) ==
    IF Len(bytes) > HashLen
    THEN [err |-> "expected 28 bytes for PubKeyHash", hash |-> <<>>]
    ELSE [err |-> "ok", hash |-> <<[class |-> "PubKeyHash", bytes |-> bytes]>>]

\* new PubKeyHash(bytes)
PubKeyHash_new(bytes) ==
    IF Len(bytes) # HashLen
    THEN [err |-> "expected 28 bytes for PubKeyHash", hash |-> <<>>]
    ELSE [err |-> "ok", hash |-> <<[class |-> "PubKeyHash", bytes |-> bytes]>>]

PubKeyHash_dummy == PubKeyHash_new(Bytes(28, 0))
PubKeyHash_fromCbor(bytes) == PubKeyHash_new(decodeBytes(bytes))
PubKeyHash_fromUplcData(data) == PubKeyHash_new(ByteArrayData_expect(data))
PubKeyHash_fromUplcCbor(bytes) == PubKeyHash_fromUplcData(decodeUplcData(bytes))

\* new ValidatorHash(bytes): the bytes as ScriptHash keeps them, then the
\* check of the length
ValidatorHash_new(bytes) ==
    IF Len(bytes) # 28
    THEN [err |-> "expected 28 bytes for ValidatorHash", hash |-> <<>>]
    ELSE [err |-> "ok", hash |-> <<[class |-> "ValidatorHash", bytes |-> bytes]>>]

ValidatorHash_dummy == ValidatorHash_new(Bytes(28, 0))
ValidatorHash_fromCbor(bytes) == ValidatorHash_new(decodeBytes(bytes))
ValidatorHash_fromUplcData(data) == ValidatorHash_new(ByteArrayData_expect(data))
ValidatorHash_fromUplcCbor(bytes) == ValidatorHash_fromUplcData(decodeUplcData(bytes))

-----------------------------------------------------------------------------
(* NetworkParamsHelper over a snapshot that lacks fields.  `absent` is the *)
(* set of the fields the snapshot lacks, each named by the last part of    *)
(* its path; an access returns "ok" or the error it throws.                *)

\* expectSome(this.params?.<path>, "'networkParams.<path>' undefined")
expectSome(absent, field, path) ==
    IF field \in absent THEN "'networkParams." \o path \o "' undefined" ELSE "ok"

\* new NetworkParamsHelper(params, liveSlotGetter): two assignments
NetworkParamsHelper_new(p, absent) == [params |-> p, absent |-> absent]

\* the expectSome calls of a derived quantity, in the order they are
\* evaluated: <<field, path in the message>>. maxTxFee reads txFeeParams,
\* exFeeParams, maxTxExecutionBudget and maxTxSize; slotToTime reads
\* latestTipSlot, latestTipTime and secondsPerSlot; timeToSlot reads
\* latestTipTime first. The message of minCollateralPct spells 'latestParmas'.
RECURSIVE Reads(_)
Reads(getter) ==
    CASE getter = "txFeeParams" ->
            << <<"txFeeFixed", "latestParams.txFeeFixed">>,
               <<"txFeePerByte", "latestParams.txFeePerByte">> >>
      [] getter = "exFeeParams" ->
            << <<"priceMemory", "latestParams.executionUnitPrices.priceMemory">>,
               <<"priceSteps", "latestParams.executionUnitPrices.priceSteps">> >>
      [] getter = "lovelacePerUTXOByte" ->
            << <<"utxoCostPerByte", "latestParams.utxoCostPerByte">> >>
      [] getter = "minCollateralPct" ->
            << <<"collateralPercentage", "latestParmas.collateralPercentage">> >>
      [] getter = "maxCollateralInputs" ->
            << <<"maxCollateralInputs", "latestParams.maxCollateralInputs">> >>
      [] getter = "maxTxExecutionBudget" ->
            << <<"memory", "latestParams.maxTxExecutionUnits.memory">>,
               <<"steps", "latestParams.maxTxExecutionUnits.steps">> >>
      [] getter = "maxTxFee" ->
            Reads("txFeeParams") \o Reads("exFeeParams")
                \o Reads("maxTxExecutionBudget") \o Reads("maxTxSize")
      [] getter = "maxTxSize" -> << <<"maxTxSize", "latestParams.maxTxSize">> >>
      [] getter = "secondsPerSlot" -> << <<"slotLength", "shelleyGenesis.slotLength">> >>
      [] getter = "stakeAddressDeposit" ->
            << <<"stakeAddressDeposit", "latestParams.stakeAddressDeposit">> >>
      [] getter = "latestTipSlot" -> << <<"slot", "latestTip.slot">> >>
      [] getter = "latestTipTime" -> << <<"time", "latestTip.time">> >>
      [] getter = "slotToTime" ->
            Reads("latestTipSlot") \o Reads("latestTipTime") \o Reads("secondsPerSlot")
      [] getter = "timeToSlot" ->
            Reads("latestTipTime") \o Reads("latestTipSlot") \o Reads("secondsPerSlot")

\* helper.<getter>, helper.slotToTime(arg), helper.timeToSlot(arg): the error
\* thrown. sortedV2CostParams hands the cost model to Object.keys without
\* expectSome: the error is the one of the runtime for an undefined object
NetworkParamsHelper_get(getter, helper) ==
    IF getter = "sortedV2CostParams"
    THEN IF "PlutusScriptV2" \in helper.absent
         THEN "TypeError: Cannot convert undefined or null to object"
         ELSE "ok"
    ELSE FirstError([i \in DOMAIN Reads(getter) |->
                        expectSome(helper.absent, Reads(getter)[i][1], Reads(getter)[i][2])])

\* maxTxFee: a + ceil(b * maxTxSize) + ceil(feePerMem * maxMem) + ceil(feePerCpu * maxCpu)
maxTxFee(p) ==
    LET a == txFeeParams(p)[1]
        b == txFeeParams(p)[2]
        feePerMem == exFeeParams(p)[1]
        feePerCpu == exFeeParams(p)[2]
        maxMem == maxTxExecutionBudget(p)[1]
        maxCpu == maxTxExecutionBudget(p)[2]
    IN  a + b * maxTxSize(p) + CeilDiv(feePerMem[1] * maxMem, feePerMem[2])
          + CeilDiv(feePerCpu[1] * maxCpu, feePerCpu[2])

\* Math.round of a quotient with a positive divisor: half rounds up
RoundDiv(n, d) == (2 * n + d) \div (2 * d)

\* slotToTime(slot): milliseconds
slotToTime(p, slot) ==
    p.latestTip.time + (slot - p.latestTip.slot) * p.slotLength * 1000

\* timeToSlot(time)
timeToSlot(p, time) ==
    p.latestTip.slot + RoundDiv(time - p.latestTip.time, 1000 * p.slotLength)

\* the derived quantities of the helper
Getters ==
    {"txFeeParams", "exFeeParams", "maxTxExecutionBudget", "maxTxFee", "maxTxSize",
     "lovelacePerUTXOByte", "minCollateralPct", "maxCollateralInputs",
     "stakeAddressDeposit", "sortedV2CostParams", "slotToTime", "timeToSlot"}

\* the value of an access that throws nothing
NetworkParamsHelper_value(getter, helper, arg) ==
    CASE getter = "txFeeParams" -> txFeeParams(helper.params)
      [] getter = "exFeeParams" -> exFeeParams(helper.params)
      [] getter = "maxTxExecutionBudget" -> maxTxExecutionBudget(helper.params)
      [] getter = "maxTxFee" -> maxTxFee(helper.params)
      [] getter = "maxTxSize" -> maxTxSize(helper.params)
      [] getter = "lovelacePerUTXOByte" -> lovelacePerUTXOByte(helper.params)
      [] getter = "minCollateralPct" -> minCollateralPct(helper.params)
      [] getter = "maxCollateralInputs" -> maxCollateralInputs(helper.params)
      [] getter = "stakeAddressDeposit" -> stakeAddressDeposit(helper.params)
      [] getter = "sortedV2CostParams" -> sortedV2CostParams(helper.params)
      [] getter = "slotToTime" -> slotToTime(helper.params, arg)
      [] getter = "timeToSlot" -> timeToSlot(helper.params, arg)

-----------------------------------------------------------------------------
(* TxOutput.correctLovelace.  An updater is "none" (null), "record" (the   *)
(* datum is rewritten to hold the lovelace of the output) or "grow" (the   *)
(* datum is rewritten one byte longer).                                    *)

\* updater(output): an output without an inline datum is left alone
applyUpdater(updater, output) ==
    IF updater = "none" \/ output.datum.kind # "inline" THEN output
    ELSE IF updater = "record"
    THEN [output EXCEPT !.datum.data = encodeIntLen(output.value.lovelace)]
    ELSE [output EXCEPT !.datum.data = @ + 1]

\* the loop of correctLovelace from its test on: the output, the iterations
\* made, and whether the test still asks for another one when MaxRounds
\* iterations are made (the loop itself has no bound)
RECURSIVE correctLovelaceLoop(_, _, _, _, _, _)
correctLovelaceLoop(output, p, updater, strictBabbage, minLovelace, iterations) ==
    IF ~(output.value.lovelace < minLovelace)
    THEN [output |-> output, iterations |-> iterations, looping |-> FALSE]
    ELSE IF iterations = MaxRounds
    THEN [output |-> output, iterations |-> iterations, looping |-> TRUE]
    ELSE \* the output after the assignment and the updater
         LET next == applyUpdater(updater, [output EXCEPT !.value.lovelace = minLovelace])
         IN  correctLovelaceLoop(next, p, updater, strictBabbage,
                                 calcDeposit(next, p, strictBabbage), iterations + 1)

\* TxOutput.correctLovelace
correctLovelace(output, p, updater, strictBabbage) ==
    correctLovelaceLoop(output, p, updater, strictBabbage,
                        calcDeposit(output, p, strictBabbage), 0)

-----------------------------------------------------------------------------
(* Actions: one per public method of Tx *)

Called(op, arg, err, ran, value, bytes) ==
    /\ lastOp' = op
    /\ lastArg' = arg
    /\ lastErr' = err
    /\ checksRun' = ran
    /\ ret' = value
    /\ wire' = bytes

\* tx.validate(params, strict)
Validated(strict, r, witnessesAfter) ==
    /\ Called("validate", <<strict>>, r.err, r.ran, <<>>, <<>>)
    /\ tx' = IF "validateFee" \in Range(r.ran)
             THEN [tx EXCEPT !.witnesses = witnessesAfter]
             ELSE tx
    /\ UNCHANGED <<params, config, vm, sigOk>>

Validate(strict) ==
    Validated(strict, validate(tx, params, strict, config.STRICT_BABBAGE, vm),
              calcSizeAfter(tx, TRUE))

\* tx.validateSignatures()
ValidateSignatures ==
    LET e == validateSignatures(tx)
    IN  /\ Called("validateSignatures", <<>>, e, <<>>, <<>>, <<>>)
        /\ tx' = IF e = "ok" THEN [tx EXCEPT !.valid = TRUE] ELSE tx
        /\ sigOk' = (sigOk \/ e = "ok")
        /\ UNCHANGED <<params, config, vm>>

Signatures == [pubKeyHash : Keys, good : BOOLEAN]

\* tx.addSignature(signature, verify)
AddSignature(signature, verify) ==
    LET r == addSignature(tx, signature, verify)
    IN  /\ Called("addSignature", <<signature, verify>>, r.err, <<>>, <<>>, <<>>)
        /\ tx' = r.tx
        /\ UNCHANGED <<params, config, vm, sigOk>>

\* tx.addSignatures(signatures, verify) with one signature of every key
AddSignatures(signatures, verify) ==
    LET r == addSignatures(tx, signatures, verify)
    IN  /\ Called("addSignatures", <<signatures, verify>>, r.err, <<>>, <<>>, <<>>)
        /\ tx' = r.tx
        /\ UNCHANGED <<params, config, vm, sigOk>>

\* tx = tx.clearMetadata()
ClearMetadata ==
    /\ Called("clearMetadata", <<>>, "ok", <<>>, <<>>, <<>>)
    /\ tx' = clearMetadata(tx)
    /\ sigOk' = FALSE
    /\ UNCHANGED <<params, config, vm>>

\* tx.calcSize(forFeeCalculation)
CalcSize(forFeeCalculation) ==
    /\ Called("calcSize", <<forFeeCalculation>>, "ok", <<>>,
              <<calcSize(tx, forFeeCalculation, config.STRICT_BABBAGE)>>, <<>>)
    /\ tx' = [tx EXCEPT !.witnesses = calcSizeAfter(tx, forFeeCalculation)]
    /\ UNCHANGED <<params, config, vm, sigOk>>

\* tx.toCbor(forFeeCalculation)
ToCbor(forFeeCalculation) ==
    /\ Called("toCbor", <<forFeeCalculation>>, "ok", <<>>,
              Tx_toCbor(tx, forFeeCalculation, config.STRICT_BABBAGE), <<>>)
    /\ UNCHANGED <<tx, params, config, vm, sigOk>>

\* The byte strings handed to Tx.fromCbor: what a peer with the same
\* configuration writes for this transaction, with the valid flag of either
\* value, and the three-item encoding used for the fee
WireOf(t, strictBabbage) ==
    { [Tx_toCbor(t, FALSE, strictBabbage) EXCEPT ![3] = Item("bool", encodeBool(flag), 1)]
        : flag \in BOOLEAN }
    \cup {Tx_toCbor(t, TRUE, strictBabbage)}

\* tx = Tx.fromCbor(bytes)
FromCbor(bytes) ==
    IF Tx_fromCborAccepts(bytes)
    THEN /\ Called("fromCbor", <<>>, "ok", <<>>, <<>>, bytes)
         /\ tx' = Tx_fromCbor(bytes)
         /\ sigOk' = FALSE
         /\ UNCHANGED <<params, config, vm>>
    ELSE /\ Called("fromCbor", <<>>, "unexpected tuple encoding", <<>>, <<>>, bytes)
         /\ UNCHANGED <<tx, params, config, vm, sigOk>>

\* calcScriptDataHash(params, tx.witnesses.datums, tx.witnesses.redeemers),
\* as the builder of a Tx calls it for body.scriptDataHash
CalcScriptDataHash ==
    /\ IF calcScriptDataHashFails(tx.witnesses.redeemers)
       THEN Called("calcScriptDataHash", <<>>,
                   "expected at least 1 redeemer to be able to create the script data hash",
                   <<>>, <<>>, <<>>)
       ELSE Called("calcScriptDataHash", <<>>, "ok", <<>>,
                   <<calcScriptDataHash(params, tx.witnesses.datums,
                                        tx.witnesses.redeemers)>>, <<>>)
    /\ UNCHANGED <<tx, params, config, vm, sigOk>>

\* await tx.recover(network)
Recover ==
    /\ Called("recover", <<>>, "ok", <<>>, <<>>, <<>>)
    /\ tx' = recover(tx)
    /\ UNCHANGED <<params, config, vm, sigOk>>

\* The byte strings handed to the hash classes: of the length of a hash, up
\* to HashSlack bytes shorter or longer, and empty
ByteStrings ==
    {Bytes(n, 255) : n \in {0} \cup ((HashLen - HashSlack)..(HashLen + HashSlack))}

\* a call of a constructor or static method of a hash class. The hash
\* classes share no state with the Tx: their calls are taken before the
\* first call on the Tx, where the hashes of a Tx are made
HashCalled(op, arg, r) ==
    /\ lastOp = "new"
    /\ Called(op, <<arg>>, r.err, <<>>, r.hash, <<>>)
    /\ UNCHANGED <<tx, params, config, vm, sigOk>>

\* new PubKeyHash(bytes) and the static methods of PubKeyHash
NewPubKeyHash(bytes) ==
    \/ HashCalled("PubKeyHash", bytes, PubKeyHash_new(bytes))
    \/ HashCalled("PubKeyHash.fromCbor", encodeBytes(bytes),
                  PubKeyHash_fromCbor(encodeBytes(bytes)))
    \/ HashCalled("PubKeyHash.fromUplcData", ByteArrayData(bytes),
                  PubKeyHash_fromUplcData(ByteArrayData(bytes)))
    \/ HashCalled("PubKeyHash.fromUplcCbor", UplcData_toCbor(ByteArrayData(bytes)),
                  PubKeyHash_fromUplcCbor(UplcData_toCbor(ByteArrayData(bytes))))

\* new ValidatorHash(bytes) and the static methods of ValidatorHash
NewValidatorHash(bytes) ==
    \/ HashCalled("ValidatorHash", bytes, ValidatorHash_new(bytes))
    \/ HashCalled("ValidatorHash.fromCbor", encodeBytes(bytes),
                  ValidatorHash_fromCbor(encodeBytes(bytes)))
    \/ HashCalled("ValidatorHash.fromUplcData", ByteArrayData(bytes),
                  ValidatorHash_fromUplcData(ByteArrayData(bytes)))
    \/ HashCalled("ValidatorHash.fromUplcCbor", UplcData_toCbor(ByteArrayData(bytes)),
                  ValidatorHash_fromUplcCbor(UplcData_toCbor(ByteArrayData(bytes))))

\* PubKeyHash.dummy() and ValidatorHash.dummy()
Dummy ==
    \/ HashCalled("PubKeyHash.dummy", <<>>, PubKeyHash_dummy)
    \/ HashCalled("ValidatorHash.dummy", <<>>, ValidatorHash_dummy)

\* the fields a snapshot can lack, by the last part of their paths
SnapshotFields ==
    {"txFeeFixed", "txFeePerByte", "priceMemory", "priceSteps", "utxoCostPerByte",
     "collateralPercentage", "maxCollateralInputs", "memory", "steps", "maxTxSize",
     "slotLength", "stakeAddressDeposit", "slot", "time", "PlutusScriptV2"}

\* the fields the source of a derived quantity reads
FieldsRead(getter) ==
    CASE getter = "txFeeParams" -> {"txFeeFixed", "txFeePerByte"}
      [] getter = "exFeeParams" -> {"priceMemory", "priceSteps"}
      [] getter = "maxTxExecutionBudget" -> {"memory", "steps"}
      [] getter = "maxTxFee" -> {"txFeeFixed", "txFeePerByte", "priceMemory", "priceSteps",
                                 "memory", "steps", "maxTxSize"}
      [] getter = "maxTxSize" -> {"maxTxSize"}
      [] getter = "lovelacePerUTXOByte" -> {"utxoCostPerByte"}
      [] getter = "minCollateralPct" -> {"collateralPercentage"}
      [] getter = "maxCollateralInputs" -> {"maxCollateralInputs"}
      [] getter = "stakeAddressDeposit" -> {"stakeAddressDeposit"}
      [] getter = "sortedV2CostParams" -> {"PlutusScriptV2"}
      [] getter = "slotToTime" -> {"slot", "time", "slotLength"}
      [] getter = "timeToSlot" -> {"slot", "time", "slotLength"}

\* the snapshots one derived quantity is read from: the complete one, the
\* ones that lack one field it reads, and the one that lacks all the others
Lacking(getter) ==
    {{}} \cup {{f} : f \in FieldsRead(getter)} \cup {SnapshotFields \ FieldsRead(getter)}

\* the argument of a slot conversion (none for a getter)
ConversionArgs(getter, p) ==
    CASE getter = "slotToTime" -> {p.latestTip.slot + 3}
      [] getter = "timeToSlot" -> {p.latestTip.time + 3000}
      [] OTHER -> {0}

\* new NetworkParamsHelper(snapshot).<getter>, for the snapshot that holds
\* params without the fields absent. The helper shares no state with the
\* Tx: it is made and read before the first call on the Tx
Accessed(getter, arg, helper, err) ==
    /\ lastOp = "new"
    /\ Called(getter, <<helper.absent, arg>>, err, <<>>,
              IF err = "ok" THEN <<NetworkParamsHelper_value(getter, helper, arg)>>
              ELSE <<>>, <<>>)
    /\ UNCHANGED <<tx, params, config, vm, sigOk>>

Access(getter, arg, absent) ==
    Accessed(getter, arg, NetworkParamsHelper_new(params, absent),
             NetworkParamsHelper_get(getter, NetworkParamsHelper_new(params, absent)))

Updaters == {"none", "record", "grow"}

\* the outputs correctLovelace is called on: without a datum, holding
\* nothing, its deposit and more; with an inline datum of 51 and of 52 bytes,
\* whose deposits lie at the step of the encoding of the amount at 256
OutputsToCorrect ==
    {TxOutputOf(PubKeyCred(2), Lovelace(lovelace), NoDatum, None) : lovelace \in {0, 194, 300}}
    \cup {TxOutputOf(PubKeyCred(2), Lovelace(0), InlineDatum(d), None) : d \in {51, 52}}

\* output.correctLovelace(params, updater) on an output that is not yet in
\* the body of a Tx
CorrectLovelace(output, updater) ==
    /\ lastOp = "new"
    /\ Called("correctLovelace", <<output, updater>>, "ok", <<>>,
              <<correctLovelace(output, params, updater, config.STRICT_BABBAGE)>>, <<>>)
    /\ UNCHANGED <<tx, params, config, vm, sigOk>>

Next ==
    \/ \E strict \in BOOLEAN : Validate(strict)
    \/ ValidateSignatures
    \/ \E signature \in Signatures, verify \in BOOLEAN : AddSignature(signature, verify)
    \/ \E verify \in BOOLEAN :
          AddSignatures([k \in Keys |-> [pubKeyHash |-> k, good |-> TRUE]], verify)
    \/ ClearMetadata
    \/ \E forFeeCalculation \in BOOLEAN : CalcSize(forFeeCalculation)
    \/ \E forFeeCalculation \in BOOLEAN : ToCbor(forFeeCalculation)
    \/ \E bytes \in WireOf(tx, config.STRICT_BABBAGE) : FromCbor(bytes)
    \/ Recover
    \/ CalcScriptDataHash
    \/ \E bytes \in ByteStrings : NewPubKeyHash(bytes)
    \/ \E bytes \in ByteStrings : NewValidatorHash(bytes)
    \/ Dummy
    \/ \E getter \in Getters : \E absent \in Lacking(getter) :
          \E arg \in ConversionArgs(getter, params) : Access(getter, arg, absent)
    \/ \E output \in OutputsToCorrect, updater \in Updaters : CorrectLovelace(output, updater)

-----------------------------------------------------------------------------
(* Transactions and parameters the behaviours start from *)

BaseParams ==
    [txFeeFixed |-> 0, txFeePerByte |-> 1,
     executionUnitPrices |-> [priceMemory |-> <<1, 2>>, priceSteps |-> <<1, 4>>],
     utxoCostPerByte |-> 1, collateralPercentage |-> 150, maxCollateralInputs |-> 2,
     maxTxExecutionUnits |-> [memory |-> 4, steps |-> 4],
     maxTxSize |-> 600, stakeAddressDeposit |-> 7,
     costModel |-> << <<2, 20>>, <<1, 10>> >>,
     slotLength |-> 2, latestTip |-> [slot |-> 10, time |-> 50000]]

EmptyWitnesses ==
    [signatures |-> <<>>, nativeScripts |-> <<>>, scripts |-> <<>>, refScripts |-> <<>>,
     datums |-> <<>>, redeemers |-> <<>>]

EmptyBody ==
    [inputs |-> <<>>, refInputs |-> <<>>, outputs |-> <<>>, fee |-> 0, minted |-> NoAssets,
     dcerts |-> <<>>, withdrawals |-> <<>>, signers |-> <<>>, collateral |-> <<>>,
     collateralReturn |-> <<>>, scriptDataHash |-> <<>>, metadataHash |-> None,
     synced |-> TRUE]

KeyInput(id, key, lovelace) ==
    TxInputOf(id, TxOutputOf(PubKeyCred(key), Lovelace(lovelace), NoDatum, None))

\* one key input, one output to a key, no scripts: 1000 = 750 + 250
BaseTx ==
    NewTx([EmptyBody EXCEPT
              !.inputs = <<KeyInput(<<1, 0>>, 1, 1000)>>,
              !.outputs = <<TxOutputOf(PubKeyCred(2), Lovelace(750), NoDatum, None)>>,
              !.fee = 250],
          EmptyWitnesses, FALSE, None)

ScriptInput(id, hash, lovelace) ==
    TxInputOf(id, TxOutputOf(ScriptCred(hash), Lovelace(lovelace), InlineDatum(1), None))

SpendingRedeemer(index, mem, cpu) ==
    [kind |-> "spending", index |-> index, data |-> 1, cost |-> [mem |-> mem, cpu |-> cpu]]

\* the base transaction spending from script 1 instead, with the script, a
\* redeemer, the script data hash and a collateral input of key 2 attached
SmartTx ==
    LET redeemers == <<SpendingRedeemer(0, 1, 1)>>
    IN  NewTx([BaseTx.body EXCEPT
                  !.inputs = <<ScriptInput(<<1, 0>>, 1, 1000)>>,
                  !.outputs = <<TxOutputOf(PubKeyCred(2), Lovelace(650), NoDatum, None)>>,
                  !.fee = 350,
                  !.collateral = <<KeyInput(<<2, 0>>, 2, 600)>>,
                  !.scriptDataHash = <<calcScriptDataHash(BaseParams, <<>>, redeemers)>>],
              [EmptyWitnesses EXCEPT !.scripts = <<1>>, !.redeemers = redeemers],
              FALSE, None)

WithMetadata(t, m) == [t EXCEPT !.metadata = m, !.body.metadataHash = MetadataHash(m)]
WithSigners(t, signers) == [t EXCEPT !.body.signers = signers]
WithValid(t, valid) == [t EXCEPT !.valid = valid]
WithSignatures(t, keys) ==
    [t EXCEPT !.witnesses.signatures = [i \in DOMAIN keys |->
                                           [pubKeyHash |-> keys[i], dummy |-> FALSE]]]

\* Transactions as the constructor is handed them while signatures are
\* collected: signed or not, with and without required signers, spending
\* from a key or from a script
LifecycleTxs ==
    { WithMetadata(WithValid(WithSigners(WithSignatures(t, keys), signers), valid), 1) :
        t \in {BaseTx, SmartTx},
        keys \in {<<>>, <<1>>},
        signers \in {<<>>, <<1>>, <<2, 1>>},
        valid \in BOOLEAN }

\* a starting point: a transaction, the parameters and the VM's measure
Scenario(t, p, cost) == [tx |-> t, params |-> p, vm |-> cost]

UnitCost == [mem |-> 1, cpu |-> 1]

\* the state after construction, under one of the configurations given
StartUnder(scenarios, strictness) ==
    /\ \E s \in scenarios : tx = s.tx /\ params = s.params /\ vm = s.vm
    /\ \E strictBabbage \in strictness : config = [STRICT_BABBAGE |-> strictBabbage]
    /\ lastOp = "new"
    /\ lastArg = <<>>
    /\ lastErr = "ok"
    /\ checksRun = <<>>
    /\ ret = <<>>
    /\ wire = <<>>
    /\ sigOk = FALSE

\* the state after construction, under the default configuration
Start(scenarios) == StartUnder(scenarios, {FALSE})

Init == Start({Scenario(t, BaseParams, UnitCost) : t \in LifecycleTxs})

Spec == Init /\ [][Next]_vars

-----------------------------------------------------------------------------
(* Transactions that deviate from a passing one, one deviation per check of *)
(* validate                                                                 *)

\* the script-spending transaction with room in its fee: 1000 = 500 + 500
RoomyTx ==
    [SmartTx EXCEPT !.body.fee = 500,
                    !.body.outputs = <<TxOutputOf(PubKeyCred(2), Lovelace(500), NoDatum, None)>>,
                    !.body.collateral = <<KeyInput(<<2, 0>>, 2, 800)>>]

MintedPair == << <<2, << <<1, 1>> >> >>, <<1, << <<1, 1>> >> >> >>
SortedPair == << <<1, << <<1, 1>> >> >>, <<2, << <<1, 1>> >> >> >>

\* deviation k applied to scenario s: it makes check k of validate fail and
\* leaves the checks before it alone
Defect(k, s) ==
    CASE k = 1 -> [s EXCEPT !.params.maxTxSize = 50]
      [] k = 2 -> [s EXCEPT !.params.txFeeFixed = 1000]
      [] k = 3 -> [s EXCEPT !.tx.body.outputs[1].value.lovelace = @ + 1]
      [] k = 4 -> [s EXCEPT !.tx.body.collateral = <<KeyInput(<<2, 0>>, 2, 700)>>]
      [] k = 5 -> [s EXCEPT !.tx.witnesses.nativeScripts = <<1>>]
      [] k = 6 -> [s EXCEPT !.vm = [mem |-> 2, cpu |-> 1]]
      [] k = 7 -> [s EXCEPT !.params.maxTxExecutionUnits = [memory |-> 0, steps |-> 4]]
      [] k = 8 -> [s EXCEPT !.params.utxoCostPerByte = 10]
      [] k = 9 -> [s EXCEPT !.tx.body.inputs = @ \o <<KeyInput(<<0, 0>>, 1, 0)>>]
      [] k = 10 -> [s EXCEPT !.tx.body.refInputs =
                                 <<KeyInput(<<3, 1>>, 1, 5), KeyInput(<<3, 0>>, 1, 5)>>]
      [] k = 11 -> [s EXCEPT !.tx.body.minted = MintedPair,
                             !.tx.body.outputs[1].value.assets = SortedPair,
                             !.tx.witnesses.scripts = <<1, 2>>]
      [] k = 12 -> [s EXCEPT !.tx.body.withdrawals =
                                 << <<PubKeyCred(2), 0>>, <<PubKeyCred(1), 0>> >>]
      [] k = 13 -> [s EXCEPT !.tx.metadata = 1]
      [] k = 14 -> [s EXCEPT !.tx.body.scriptDataHash = <<blake2b(<<>>)>>]

NChecks == Len(ValidateOrder)

\* the passing transaction, the ones that fail two consecutive checks at
\* once, and the one that fails the last check
DefectScenarios ==
    {Scenario(RoomyTx, BaseParams, UnitCost),
     Defect(NChecks, Scenario(RoomyTx, BaseParams, UnitCost))}
    \cup {Defect(j, Defect(j + 1, Scenario(RoomyTx, BaseParams, UnitCost))) :
             j \in 1..(NChecks - 1)}

InitDefects == Start(DefectScenarios)

SpecDefects == InitDefects /\ [][Next]_vars

-----------------------------------------------------------------------------
(* Transactions whose fee is at, just below and just above the minimum *)

\* t paying fee instead, the difference taken from its first output
WithFee(t, fee) ==
    [t EXCEPT !.body.fee = fee,
              !.body.outputs[1].value.lovelace = @ + t.body.fee - fee]

\* txFeeFixed 70 puts the minimum fee of BaseTx at 256, where the encoding of
\* the fee grows by a byte; the minimum fee of RoomyTx is 282
FeeScenarios ==
    {Scenario(WithFee(BaseTx, 256 + d), [BaseParams EXCEPT !.txFeeFixed = 70], UnitCost) :
        d \in (0 - FeeSpread)..FeeSpread}
    \cup {Scenario(WithFee(RoomyTx, 282 + d), BaseParams, UnitCost) :
             d \in (0 - FeeSpread)..FeeSpread}

InitFee == Start(FeeScenarios)

SpecFee == InitFee /\ [][Next]_vars

\* the minimum fee as the parameters, the size and the redeemers give it
MinFeeOf(t, p, strictBabbage) ==
    p.txFeeFixed + p.txFeePerByte * calcSize(t, TRUE, strictBabbage)
    + calcExFee(t.witnesses, p)

FeeCheckPassed(err, ran) == "validateFee" \in Range(ran) /\ err # "fee too small"

\* C7, as stated: the fee check passes iff fee >= txFeeFixed + txFeePerByte *
\* calcSize(true) + execution fee; a Tx whose fee is that minimum passes, and
\* the same Tx with a fee one lovelace lower fails.
C7_FeeCheckOneLowerFails ==
    [][ (lastOp' = "validate" /\ "validateFee" \in Range(checksRun'))
            => /\ FeeCheckPassed(lastErr', checksRun')
                    = (tx.body.fee >= MinFeeOf(tx, params, config.STRICT_BABBAGE))
               /\ tx.body.fee = MinFeeOf(tx, params, config.STRICT_BABBAGE)
                    => validateFee(WithFee(tx, tx.body.fee - 1), params,
                                   config.STRICT_BABBAGE) = "fee too small" ]_vars

\* C7, amended: the fee check passes iff fee >= txFeeFixed + txFeePerByte *
\* calcSize(true) + execution fee; a Tx whose fee is that minimum passes, and
\* the same Tx with a fee one lovelace lower fails provided the lower fee
\* leaves calcSize(true) as it is.
C7_FeeCheck ==
    [][ (lastOp' = "validate" /\ "validateFee" \in Range(checksRun'))
            => /\ FeeCheckPassed(lastErr', checksRun')
                    = (tx.body.fee >= MinFeeOf(tx, params, config.STRICT_BABBAGE))
               /\ (/\ tx.body.fee = MinFeeOf(tx, params, config.STRICT_BABBAGE)
                   /\ calcSize(WithFee(tx, tx.body.fee - 1), TRUE, config.STRICT_BABBAGE)
                        = calcSize(tx, TRUE, config.STRICT_BABBAGE))
                    => validateFee(WithFee(tx, tx.body.fee - 1), params,
                                   config.STRICT_BABBAGE) = "fee too small" ]_vars

\* validate has passed the fee check of a Tx with redeemers whose fee is
\* the minimum, and one lovelace less does not change its size
C7_Witness ==
    /\ lastOp = "validate" /\ FeeCheckPassed(lastErr, checksRun)
    /\ tx.witnesses.redeemers # <<>>
    /\ tx.body.fee = MinFeeOf(tx, params, config.STRICT_BABBAGE)
    /\ calcSize(WithFee(tx, tx.body.fee - 1), TRUE, config.STRICT_BABBAGE)
         = calcSize(tx, TRUE, config.STRICT_BABBAGE)

-----------------------------------------------------------------------------
(* Transactions that conserve value, and the same with an output shifted *)

\* one key input, two outputs: 1000 = 350 + 250 + 400
TwoOutputTx ==
    NewTx([EmptyBody EXCEPT
              !.inputs = <<KeyInput(<<1, 0>>, 1, 1000)>>,
              !.outputs = <<TxOutputOf(PubKeyCred(2), Lovelace(350), NoDatum, None),
                            TxOutputOf(PubKeyCred(1), Lovelace(250), NoDatum, None)>>,
              !.fee = 400],
          EmptyWitnesses, FALSE, None)

OneToken == << <<1, << <<1, 1>> >> >> >>

DCertOf(kind, cred) == [kind |-> kind, cred |-> cred]

\* output k of t with d lovelace more
ShiftOutput(t, k, d) == [t EXCEPT !.body.outputs[k].value.lovelace = @ + d]

\* balanced transactions: plain, minting a token into an output, registering
\* and deregistering a stake key; and one that mints a token into no output
ConservingTxs ==
    { TwoOutputTx,
      [TwoOutputTx EXCEPT !.body.minted = OneToken,
                          !.body.outputs[2].value.assets = OneToken],
      ShiftOutput([TwoOutputTx EXCEPT !.body.dcerts = <<DCertOf("register", PubKeyCred(1))>>],
                  1, 0 - BaseParams.stakeAddressDeposit),
      ShiftOutput([TwoOutputTx EXCEPT !.body.dcerts = <<DCertOf("deregister", PubKeyCred(1))>>],
                  1, BaseParams.stakeAddressDeposit) }

ConservationScenarios ==
    {Scenario(ShiftOutput(t, k, d), BaseParams, UnitCost) :
        t \in ConservingTxs \cup {[TwoOutputTx EXCEPT !.body.minted = OneToken]},
        k \in 1..2,
        d \in {-1, 0, 1}}

InitConservation == Start(ConservationScenarios)

SpecConservation == InitConservation /\ [][Next]_vars

\* what goes in less what goes out, in lovelace and in asset class c
LovelaceBalance(b, p) ==
    SumSeq([i \in DOMAIN b.inputs |-> b.inputs[i].output.value.lovelace])
    + p.stakeAddressDeposit * Cardinality({i \in DOMAIN b.dcerts : b.dcerts[i].kind = "deregister"})
    - b.fee
    - SumSeq([i \in DOMAIN b.outputs |-> b.outputs[i].value.lovelace])
    - p.stakeAddressDeposit * Cardinality({i \in DOMAIN b.dcerts : b.dcerts[i].kind = "register"})

AssetBalance(b, c) ==
    SumSeq([i \in DOMAIN b.inputs |-> AssetsQty(b.inputs[i].output.value.assets, c[1], c[2])])
    + AssetsQty(b.minted, c[1], c[2])
    - SumSeq([i \in DOMAIN b.outputs |-> AssetsQty(b.outputs[i].value.assets, c[1], c[2])])

ConservationPassed(err, ran) ==
    /\ "validateConservation" \in Range(ran)
    /\ err \notin {"tx not balanced, net lovelace not zero",
                   "tx not balanced, net assets not zero"}

\* C8: the conservation check passes iff inputs + refunds of deregistrations
\* - fee + minted - outputs - deposits of registrations is zero in lovelace
\* and in every asset; a Tx with nothing minted and no certificates whose
\* inputs sum to outputs + fee passes, and with the lovelace of any one
\* output changed by 1 in either direction it fails.
C8_Conservation ==
    [][ (lastOp' = "validate" /\ "validateConservation" \in Range(checksRun') /\ tx.body.synced)
            => /\ ConservationPassed(lastErr', checksRun')
                    = (/\ LovelaceBalance(tx.body, params) = 0
                       /\ \A c \in AssetClasses : AssetBalance(tx.body, c) = 0)
               /\ (/\ ConservationPassed(lastErr', checksRun')
                   /\ tx.body.minted = NoAssets /\ tx.body.dcerts = <<>>)
                    => \A k \in DOMAIN tx.body.outputs : \A d \in {-1, 1} :
                          validateConservation(ShiftOutput(tx, k, d), params)
                              = "tx not balanced, net lovelace not zero" ]_vars

\* validate has passed the conservation check of a Tx with two outputs,
\* nothing minted and no certificates
C8_Witness ==
    /\ lastOp = "validate" /\ ConservationPassed(lastErr, checksRun) /\ tx.body.synced
    /\ tx.body.minted = NoAssets /\ tx.body.dcerts = <<>> /\ Len(tx.body.outputs) = 2

-----------------------------------------------------------------------------
(* Transactions with collateral around the minimum *)

\* n collateral inputs of key 2 holding `total` lovelace between them, the
\* first of them with the assets given
CollateralInputs(n, total, assets) ==
    [i \in 1..n |->
        TxInputOf(<<2, i - 1>>,
                  TxOutputOf(PubKeyCred(2),
                             [lovelace |-> IF i = 1 THEN total - (n - 1) ELSE 1,
                              assets |-> IF i = 1 THEN assets ELSE NoAssets],
                             NoDatum, None))]

WithCollateral(t, collateral, collateralReturn) ==
    [t EXCEPT !.body.collateral = collateral, !.body.collateralReturn = collateralReturn]

\* the script-spending transaction with fee 501: 150 % of it is 751.5
OddFeeTx == WithFee(RoomyTx, 501)

\* With scripts: 0 to MaxCollateral inputs (the parameters allow 2) holding
\* 751, 752 or 753 lovelace, or 50 more with 50 returned, or six times as
\* much, or a token.  Without scripts: 0 to MaxCollateral inputs.
CollateralScenarios ==
    {Scenario(WithCollateral(OddFeeTx, CollateralInputs(n, 752 + d, NoAssets), <<>>),
              BaseParams, UnitCost) :
        n \in 0..MaxCollateral, d \in -1..1}
    \cup {Scenario(WithCollateral(OddFeeTx, CollateralInputs(1, 802 + d, NoAssets),
                                  <<TxOutputOf(PubKeyCred(2), Lovelace(50), NoDatum, None)>>),
                   BaseParams, UnitCost) :
             d \in -1..1}
    \cup {Scenario(WithCollateral(OddFeeTx, CollateralInputs(2, 6 * 752, assets), <<>>),
                   BaseParams, UnitCost) :
             assets \in {NoAssets, OneToken}}
    \cup {Scenario(WithCollateral(WithFee(BaseTx, 501), CollateralInputs(n, 752, NoAssets), <<>>),
                   BaseParams, UnitCost) :
             n \in 0..MaxCollateral}

InitCollateral == Start(CollateralScenarios)

SpecCollateral == InitCollateral /\ [][Next]_vars

CollateralErrors ==
    {"too many collateral inputs", "expected collateral TxInput.origOutput to be set",
     "collateral can only contain lovelace", "not enough collateral",
     "unnecessary collateral included"}

CollateralPassed(err, ran) ==
    "validateCollateral" \in Range(ran) /\ err \notin CollateralErrors

\* the lovelace of the collateral inputs less the collateral return
NetCollateral(b) ==
    SumSeq([i \in DOMAIN b.collateral |-> b.collateral[i].output.value.lovelace])
    - SumSeq([i \in DOMAIN b.collateralReturn |-> b.collateralReturn[i].value.lovelace])

\* the collateral check passes iff: with scripts, there are at most
\* maxCollateralInputs collateral inputs, none holds assets, and their
\* lovelace less the collateral return is >= ceil(fee * pct / 100)
\* (x >= ceil(q / 100) iff 100 x >= q); without scripts, there are none
CollateralAcceptable(t, p) ==
    IF isSmart(t.witnesses)
    THEN /\ Len(t.body.collateral) <= p.maxCollateralInputs
         /\ \A i \in DOMAIN t.body.collateral :
               AssetsIsZero(t.body.collateral[i].output.value.assets)
         /\ 100 * NetCollateral(t.body) >= t.body.fee * p.collateralPercentage
    ELSE Len(t.body.collateral) = 0

\* C9, as stated: the collateral check passes iff the collateral is
\* acceptable in the sense above, more than five times the minimum included;
\* without scripts any collateral input fails as unnecessary collateral.
C9_CollateralUnnecessary ==
    [][ (lastOp' = "validate" /\ "validateCollateral" \in Range(checksRun') /\ tx.body.synced)
            => /\ CollateralPassed(lastErr', checksRun') = CollateralAcceptable(tx, params)
               /\ (~isSmart(tx.witnesses) /\ Len(tx.body.collateral) > 0)
                    => lastErr' = "unnecessary collateral included" ]_vars

\* C9, amended: the collateral check passes iff the collateral is acceptable
\* in the sense above, more than five times the minimum included; without
\* scripts any collateral input fails: as unnecessary collateral when there
\* are at most maxCollateralInputs of them, as too many collateral inputs
\* when there are more.
C9_Collateral ==
    [][ (lastOp' = "validate" /\ "validateCollateral" \in Range(checksRun') /\ tx.body.synced)
            => /\ CollateralPassed(lastErr', checksRun') = CollateralAcceptable(tx, params)
               /\ (~isSmart(tx.witnesses) /\ Len(tx.body.collateral) > 0)
                    => lastErr' = IF Len(tx.body.collateral) <= params.maxCollateralInputs
                                  THEN "unnecessary collateral included"
                                  ELSE "too many collateral inputs" ]_vars

\* validate has passed the collateral check of a script-spending Tx whose
\* collateral is more than five times the minimum
C9_Witness ==
    /\ lastOp = "validate" /\ CollateralPassed(lastErr, checksRun) /\ tx.body.synced
    /\ isSmart(tx.witnesses)
    /\ 100 * NetCollateral(tx.body) > 5 * tx.body.fee * params.collateralPercentage + 500

-----------------------------------------------------------------------------
(* Transactions with every choice of attached scripts *)

\* the lists over S of length at most n
RECURSIVE SeqsUpTo(_, _)
SeqsUpTo(S, n) ==
    IF n = 0 THEN {<<>>}
    ELSE SeqsUpTo(S, n - 1)
         \cup {Append(q, x) : q \in SeqsUpTo(S, n - 1), x \in S}

\* t with the Plutus scripts given attached, and collateral only if there
\* are any
WithScripts(t, scripts) ==
    [t EXCEPT !.witnesses.scripts = scripts,
              !.body.collateral = IF scripts = <<>> THEN <<>> ELSE @]

\* RoomyTx, which spends from script 1, withdrawing from script 2 as well;
\* the same with a certificate of script 2 instead; and the same minting
\* under policy 2 instead
ScriptUsers ==
    { [RoomyTx EXCEPT !.body.withdrawals = << <<ScriptCred(2), 0>> >>],
      [RoomyTx EXCEPT !.body.dcerts = <<DCertOf("delegate", ScriptCred(2))>>],
      [RoomyTx EXCEPT !.body.minted = << <<2, << <<1, 1>> >> >> >>,
                      !.body.outputs[1].value.assets = << <<2, << <<1, 1>> >> >> >>] }

IsAscending(q) == \A i \in DOMAIN q : i > 1 => q[i - 1] <= q[i]

\* every ascending list of attached Plutus scripts for RoomyTx; script 1
\* with and without script 2 for the others; and a native or a reference
\* script next to, or in place of, the Plutus one
ScriptScenarios ==
    {Scenario(WithScripts(RoomyTx, scripts), BaseParams, UnitCost) :
        scripts \in {q \in SeqsUpTo(ScriptHashes, MaxAttached) : IsAscending(q)}}
    \cup {Scenario(WithScripts(t, scripts), BaseParams, UnitCost) :
             t \in ScriptUsers, scripts \in {<<1>>, <<1, 2>>}}
    \cup {Scenario([RoomyTx EXCEPT !.witnesses.nativeScripts = <<1>>], BaseParams, UnitCost),
          Scenario([RoomyTx EXCEPT !.witnesses.scripts = <<>>,
                                   !.witnesses.refScripts = <<1>>], BaseParams, UnitCost)}

InitScripts == Start(ScriptScenarios)

SpecScripts == InitScripts /\ [][Next]_vars

\* the script hashes the body requires: of its inputs, minted policies,
\* certificates and withdrawals
RequiredScripts(b) ==
    ({validatorHash(b.inputs[i].output.address) : i \in DOMAIN b.inputs}
     \cup {b.minted[i][1] : i \in DOMAIN b.minted}
     \cup {validatorHash(b.dcerts[i].cred) : i \in DOMAIN b.dcerts}
     \cup {validatorHash(b.withdrawals[i][1]) : i \in DOMAIN b.withdrawals})
    \ {None}

\* the hashes of the attached scripts, one entry per script
AttachedScripts(w) == w.nativeScripts \o w.scripts \o w.refScripts

ScriptErrors ==
    {"duplicate scripts included in transaction", NotSynced,
     "too many scripts included, not all are needed", "missing script",
     "detected unused script"}

ScriptsPassed(err, ran) == "validateScriptsPresent" \in Range(ran) /\ err \notin ScriptErrors

\* C10: the scripts-present check rejects a Tx that lacks a script for a hash
\* its body requires (as a missing script, when the attached scripts are
\* distinct and no more than the required hashes); it rejects a Tx with two
\* attached scripts of the same hash as duplicate scripts; and it passes, in
\* strict and in non-strict mode, a Tx whose attached scripts are exactly
\* the required ones, each once.
C10_ScriptsPresent ==
    [][ (lastOp' = "validate" /\ "validateScriptsPresent" \in Range(checksRun')
         /\ tx.body.synced)
            => \A attached \in {AttachedScripts(tx.witnesses)} :
               \A required \in {RequiredScripts(tx.body)} :
                  /\ (\E h \in required : h \notin Range(attached))
                        => ~ScriptsPassed(lastErr', checksRun')
                  /\ (/\ \E h \in required : h \notin Range(attached)
                      /\ Len(attached) = Cardinality(Range(attached))
                      /\ Len(attached) <= Cardinality(required))
                        => lastErr' = "missing script"
                  /\ Len(attached) # Cardinality(Range(attached))
                        => lastErr' = "duplicate scripts included in transaction"
                  /\ (Len(attached) = Cardinality(Range(attached)) /\ Range(attached) = required)
                        => ScriptsPassed(lastErr', checksRun') ]_vars

\* validate in non-strict mode has passed the scripts-present check of a Tx
\* that requires two scripts and has exactly these attached
C10_Witness ==
    /\ lastOp = "validate" /\ lastArg = <<FALSE>> /\ ScriptsPassed(lastErr, checksRun)
    /\ tx.body.synced
    /\ Cardinality(RequiredScripts(tx.body)) = 2
    /\ Range(AttachedScripts(tx.witnesses)) = RequiredScripts(tx.body)

\* an attached script that no input, minted policy, certificate or
\* withdrawal of the body requires
UnusedScripts(t) == Range(AttachedScripts(t.witnesses)) \ RequiredScripts(t.body)

\* the two errors by which validateScriptsPresent rejects a redundant script
RedundantScriptErrors ==
    {"too many scripts included, not all are needed", "detected unused script"}

\* C11: redundant attached scripts are only checked if strict = true. With
\* strict = false the scripts-present check does not reject a Tx for an
\* attached script (no duplicates, every required script attached) that
\* nothing requires; with strict = true every such unused script is rejected.
C11_RedundantOnlyIfStrict ==
    [][ (lastOp' = "validate" /\ "validateScriptsPresent" \in Range(checksRun')
         /\ tx.body.synced)
            => \A attached \in {AttachedScripts(tx.witnesses)} :
               \A required \in {RequiredScripts(tx.body)} :
                  (/\ Len(attached) = Cardinality(Range(attached))
                   /\ required \subseteq Range(attached)
                   /\ UnusedScripts(tx) # {})
                     => IF lastArg' = <<TRUE>>
                        THEN lastErr' \in RedundantScriptErrors
                        ELSE ScriptsPassed(lastErr', checksRun') ]_vars

-----------------------------------------------------------------------------
(* Tx.validateRedeemersExBudget *)

\* t with the redeemers given, and the script data hash that goes with them
WithRedeemers(t, redeemers) ==
    [t EXCEPT !.witnesses.redeemers = redeemers,
              !.body.scriptDataHash =
                  <<calcScriptDataHash(BaseParams, t.witnesses.datums, redeemers)>>]

MintingRedeemer(index, mem, cpu) ==
    [kind |-> "minting", index |-> index, data |-> 1, cost |-> [mem |-> mem, cpu |-> cpu]]

\* RoomyTx spending a second UTxO of script 1 as well
TwoSpendsTx ==
    [RoomyTx EXCEPT !.body.inputs = <<ScriptInput(<<1, 0>>, 1, 600),
                                      ScriptInput(<<1, 1>>, 1, 400)>>]

\* RoomyTx minting one token under policy 1 and one under policy 2
TwoMintsTx ==
    [RoomyTx EXCEPT !.body.minted = SortedPair,
                    !.body.outputs[1].value.assets = SortedPair,
                    !.witnesses.scripts = <<1, 2>>]

\* what the VM measures in the budget scenarios
MeasuredCost == [mem |-> 2, cpu |-> 2]

\* declared costs one below, at and one above what the VM measures
DeclaredCosts == {[mem |-> m, cpu |-> c] : m \in 1..3, c \in 1..3}

\* a declared cost for the redeemer under test: within, at and over budget
\* for mem and for cpu
ProbedCosts ==
    {[mem |-> 2, cpu |-> 2], [mem |-> 1, cpu |-> 2], [mem |-> 2, cpu |-> 1],
     [mem |-> 3, cpu |-> 3]}

\* one spending redeemer with every declared cost; two spending redeemers,
\* either at a probed cost while the other declares what is measured; a
\* spending and two minting redeemers, the last at a probed cost
BudgetScenarios ==
    {Scenario(WithRedeemers(RoomyTx, <<SpendingRedeemer(0, d.mem, d.cpu)>>),
              BaseParams, MeasuredCost) : d \in DeclaredCosts}
    \cup {Scenario(WithRedeemers(TwoSpendsTx,
                       <<SpendingRedeemer(0, 2, 2), SpendingRedeemer(1, d.mem, d.cpu)>>),
                   BaseParams, MeasuredCost) : d \in ProbedCosts}
    \cup {Scenario(WithRedeemers(TwoSpendsTx,
                       <<SpendingRedeemer(1, d.mem, d.cpu), SpendingRedeemer(0, 1, 1)>>),
                   BaseParams, MeasuredCost) : d \in ProbedCosts}
    \cup {Scenario(WithRedeemers(TwoMintsTx,
                       <<SpendingRedeemer(0, 2, 2), MintingRedeemer(0, 2, 2),
                         MintingRedeemer(1, d.mem, d.cpu)>>),
                   BaseParams, MeasuredCost) : d \in ProbedCosts}

InitBudget == Start(BudgetScenarios)

SpecBudget == InitBudget /\ [][Next]_vars

\* check name has run in a validate that ended with err after the checks ran
CheckPassed(name, err, ran) ==
    /\ name \in Range(ran)
    /\ err = "ok" \/ ran[Len(ran)] # name

\* redeemer r of t is a spending or minting redeemer whose script (and, for
\* spending, datum) is found
RedeemerResolves(t, r) ==
    \/ /\ r.kind = "spending"
       /\ r.index + 1 \in DOMAIN t.body.inputs
       /\ validatorHash(t.body.inputs[r.index + 1].output.address) \in
              Range(t.witnesses.scripts) \cup Range(t.witnesses.refScripts)
       /\ t.body.inputs[r.index + 1].output.datum.kind # "none"
    \/ /\ r.kind = "minting"
       /\ r.index + 1 \in DOMAIN t.body.minted
       /\ t.body.minted[r.index + 1][1] \in
              Range(t.witnesses.scripts) \cup Range(t.witnesses.refScripts)

\* the measured cost is over what redeemer r declares
OverBudget(r, cost) == cost.mem > r.cost.mem \/ cost.cpu > r.cost.cpu

\* the errors that name what redeemer r of t is for
BudgetErrorsOf(t, r) ==
    IF r.kind = "spending"
    THEN {"actual " \o unit \o " cost for spending UTxO "
              \o ToString(t.body.inputs[r.index + 1].id[1]) \o "#"
              \o ToString(t.body.inputs[r.index + 1].id[2]) \o " too high" :
          unit \in {"mem", "cpu"}}
    ELSE {"actual " \o unit \o " cost for minting "
              \o ToString(t.body.minted[r.index + 1][1]) \o " too high" :
          unit \in {"mem", "cpu"}}

\* C12: the per-redeemer budget check of a Tx whose redeemers are spending
\* and minting redeemers fails iff for some redeemer the measured mem is over
\* the declared mem or the measured cpu over the declared cpu (equal passes);
\* the error of a spending redeemer names the UTxO at
\* body.inputs[redeemer.index], that of a minting redeemer the policy at
\* index redeemer.index of the minted policies.
C12_RedeemerBudget ==
    [][ (lastOp' = "validate" /\ "validateRedeemersExBudget" \in Range(checksRun')
         /\ tx.body.synced
         /\ \A i \in DOMAIN tx.witnesses.redeemers :
               RedeemerResolves(tx, tx.witnesses.redeemers[i]))
            => \A redeemers \in {tx.witnesses.redeemers} :
               \A over \in {{i \in DOMAIN redeemers : OverBudget(redeemers[i], vm)}} :
                  IF over = {}
                  THEN CheckPassed("validateRedeemersExBudget", lastErr', checksRun')
                  ELSE /\ ~CheckPassed("validateRedeemersExBudget", lastErr', checksRun')
                       /\ \E i \in over :
                             /\ \A j \in over : i <= j
                             /\ lastErr' \in BudgetErrorsOf(tx, redeemers[i]) ]_vars

\* validate has stopped at the second spending redeemer, naming the second
\* input, after a first redeemer that declares exactly what is measured
C12_Witness ==
    /\ lastOp = "validate" /\ tx.body.synced
    /\ Len(tx.witnesses.redeemers) = 2
    /\ tx.witnesses.redeemers[1].cost = vm
    /\ tx.witnesses.redeemers[2].kind = "spending"
    /\ tx.witnesses.redeemers[2].index = 1
    /\ tx.witnesses.redeemers[2].cost.mem = vm.mem
    /\ tx.witnesses.redeemers[2].cost.cpu = vm.cpu - 1
    /\ lastErr = "actual cpu cost for spending UTxO 1#1 too high"

CertifyingRedeemer(index, mem, cpu) ==
    [kind |-> "certifying", index |-> index, data |-> 1, cost |-> [mem |-> mem, cpu |-> cpu]]

RewardingRedeemer(index, mem, cpu) ==
    [kind |-> "rewarding", index |-> index, data |-> 1, cost |-> [mem |-> mem, cpu |-> cpu]]

\* RoomyTx with scripts 1 and 2 attached and a second script purpose, of
\* script 2: a withdrawal, a certificate or a minted policy, each with its
\* redeemer after the spending one, declaring what the VM measures or more
PurposeScenarios ==
    {Scenario(WithRedeemers(WithScripts(
                  [RoomyTx EXCEPT !.body.withdrawals = << <<ScriptCred(2), 0>> >>], <<1, 2>>),
                  <<SpendingRedeemer(0, 1, 1), RewardingRedeemer(0, c, c)>>),
              BaseParams, UnitCost) : c \in 1..2}
    \cup {Scenario(WithRedeemers(WithScripts(
                       [RoomyTx EXCEPT !.body.dcerts = <<DCertOf("delegate", ScriptCred(2))>>],
                       <<1, 2>>),
                       <<SpendingRedeemer(0, 1, 1), CertifyingRedeemer(0, c, c)>>),
                   BaseParams, UnitCost) : c \in 1..2}
    \cup {Scenario(WithRedeemers(WithScripts(
                       [RoomyTx EXCEPT !.body.minted = << <<2, << <<1, 1>> >> >> >>,
                                       !.body.outputs[1].value.assets =
                                           << <<2, << <<1, 1>> >> >> >>],
                       <<1, 2>>),
                       <<SpendingRedeemer(0, 1, 1), MintingRedeemer(0, c, c)>>),
                   BaseParams, UnitCost) : c \in 1..2}

InitPurposes == Start(PurposeScenarios)

SpecPurposes == InitPurposes /\ [][Next]_vars

\* redeemer r of t is of one of the four purposes, and what it is for is in
\* the body with its script attached
PurposeResolves(t, r) ==
    \/ RedeemerResolves(t, r)
    \/ /\ r.kind = "certifying"
       /\ r.index + 1 \in DOMAIN t.body.dcerts
       /\ validatorHash(t.body.dcerts[r.index + 1].cred) \in
              Range(t.witnesses.scripts) \cup Range(t.witnesses.refScripts)
    \/ /\ r.kind = "rewarding"
       /\ r.index + 1 \in DOMAIN t.body.withdrawals
       /\ validatorHash(t.body.withdrawals[r.index + 1][1]) \in
              Range(t.witnesses.scripts) \cup Range(t.witnesses.refScripts)

\* C13: the per-redeemer check evaluates every redeemer of every purpose
\* (spend, mint, certificate, withdrawal): a Tx whose redeemers, a
\* certificate or withdrawal redeemer among them, are all within their
\* declared cost passes the check rather than being rejected for the kind
\* of a redeemer.
C13_EveryPurpose ==
    [][ (lastOp' = "validate" /\ "validateRedeemersExBudget" \in Range(checksRun')
         /\ tx.body.synced
         /\ \A i \in DOMAIN tx.witnesses.redeemers :
               /\ PurposeResolves(tx, tx.witnesses.redeemers[i])
               /\ ~OverBudget(tx.witnesses.redeemers[i], vm))
            => CheckPassed("validateRedeemersExBudget", lastErr', checksRun') ]_vars

-----------------------------------------------------------------------------
(* Tx.validateTotalExBudget *)

\* one redeemer declaring less than half, exactly and more than the maximum
\* of 4 mem and 4 cpu; two redeemers whose declared costs add up to one
\* below, exactly and one above the maximum, for mem and for cpu
TotalBudgetScenarios ==
    {Scenario(WithRedeemers(RoomyTx, <<SpendingRedeemer(0, d[1], d[2])>>),
              BaseParams, UnitCost) :
        d \in {<<1, 1>>, <<2, 2>>, <<4, 4>>, <<5, 1>>, <<1, 5>>}}
    \cup {Scenario(WithRedeemers(TwoSpendsTx,
                       <<SpendingRedeemer(0, 2, 2), SpendingRedeemer(1, d.mem, d.cpu)>>),
                   BaseParams, UnitCost) : d \in DeclaredCosts}

InitTotalBudget == Start(TotalBudgetScenarios)

SpecTotalBudget == InitTotalBudget /\ [][Next]_vars

DeclaredMem(t) ==
    SumSeq([i \in DOMAIN t.witnesses.redeemers |-> t.witnesses.redeemers[i].cost.mem])

DeclaredCpu(t) ==
    SumSeq([i \in DOMAIN t.witnesses.redeemers |-> t.witnesses.redeemers[i].cost.cpu])

\* C14: the total execution budget check fails iff the sum of the declared
\* mem of the redeemers is over maxTxExecutionUnits.memory or the sum of
\* the declared cpu over maxTxExecutionUnits.steps: a total exactly at the
\* maximum passes, and so does one over half of it, in strict and in
\* non-strict mode, where the notice is advisory.
C14_TotalBudget ==
    [][ (lastOp' = "validate" /\ "validateTotalExBudget" \in Range(checksRun'))
            => /\ CheckPassed("validateTotalExBudget", lastErr', checksRun')
                    <=> /\ DeclaredMem(tx) <= params.maxTxExecutionUnits.memory
                        /\ DeclaredCpu(tx) <= params.maxTxExecutionUnits.steps
               /\ DeclaredMem(tx) > params.maxTxExecutionUnits.memory
                    => lastErr' = "execution budget exceeded for mem"
               /\ (/\ DeclaredMem(tx) <= params.maxTxExecutionUnits.memory
                   /\ DeclaredCpu(tx) > params.maxTxExecutionUnits.steps)
                    => lastErr' = "execution budget exceeded for cpu" ]_vars

\* a strict validate has passed the total budget check of a Tx whose two
\* redeemers declare exactly the maximum in total, for which it warns
C14_Witness ==
    /\ lastOp = "validate" /\ lastArg = <<TRUE>>
    /\ CheckPassed("validateTotalExBudget", lastErr, checksRun)
    /\ Len(tx.witnesses.redeemers) = 2
    /\ DeclaredMem(tx) = params.maxTxExecutionUnits.memory
    /\ DeclaredCpu(tx) = params.maxTxExecutionUnits.steps
    /\ Cardinality(totalExBudgetWarnings(tx, params, TRUE)) = 2

-----------------------------------------------------------------------------
(* Tx.validateOutputs *)

\* t with the outputs given, spending an input of the value given
WithOutputs(t, outputs, inputValue) ==
    [t EXCEPT !.body.outputs = outputs, !.body.inputs[1].output.value = inputValue]

\* an output to key 2 without datum, whose deposit is 194 when it holds
\* between 24 and 255 lovelace
PlainOutput(lovelace) == TxOutputOf(PubKeyCred(2), Lovelace(lovelace), NoDatum, None)

\* an output with an inline datum of 51 bytes: 95 bytes when it holds
\* less than 256 lovelace, 96 bytes from 256 lovelace on
DatumOutput(lovelace) == TxOutputOf(PubKeyCred(2), Lovelace(lovelace), InlineDatum(51), None)

\* an output holding two tokens, whose deposit is 265
TokenOutput(lovelace, assets) ==
    TxOutputOf(PubKeyCred(2), [lovelace |-> lovelace, assets |-> assets], NoDatum, None)

\* RoomyTx, whose fee is 500, with: one plain output around its deposit; one
\* output with a datum around 256 lovelace; two plain outputs, the second at
\* and below its deposit; one output of sorted or unsorted tokens with and
\* without enough lovelace
OutputScenarios ==
    {Scenario(WithOutputs(RoomyTx, <<PlainOutput(194 + d)>>, Lovelace(694 + d)),
              BaseParams, UnitCost) : d \in -1..1}
    \cup {Scenario(WithOutputs(RoomyTx, <<DatumOutput(256 + d)>>, Lovelace(756 + d)),
                   BaseParams, UnitCost) : d \in -2..1}
    \cup {Scenario(WithOutputs(RoomyTx, <<PlainOutput(194), PlainOutput(194 + d)>>,
                               Lovelace(888 + d)),
                   BaseParams, UnitCost) : d \in -1..0}
    \cup {Scenario(WithOutputs(RoomyTx, <<TokenOutput(l, assets)>>,
                               [lovelace |-> 500 + l, assets |-> SortedPair]),
                   BaseParams, UnitCost) :
             l \in {264, 265}, assets \in {SortedPair, MintedPair}}

InitOutputs == Start(OutputScenarios)

SpecOutputs == InitOutputs /\ [][Next]_vars

\* the minimum deposit of an output: (encoded size + 160) * utxoCostPerByte
MinDeposit(output) ==
    (TxOutput_toCbor(output, config.STRICT_BABBAGE).len + 160) * params.utxoCostPerByte

\* output o holding one lovelace less
OneLess(o) == [o EXCEPT !.value.lovelace = @ - 1]

\* C15, as stated: the output check passes iff every output holds at least
\* (encoded size + 160) * utxoCostPerByte lovelace and, when strict, has its
\* assets sorted; an output holding exactly the minimum deposit passes, and
\* the same output with one lovelace less fails with 'not enough lovelace in
\* output'.
C15_OneLessFails ==
    [][ (lastOp' = "validate" /\ "validateOutputs" \in Range(checksRun'))
            => /\ CheckPassed("validateOutputs", lastErr', checksRun')
                    <=> \A i \in DOMAIN tx.body.outputs :
                           /\ tx.body.outputs[i].value.lovelace
                                >= MinDeposit(tx.body.outputs[i])
                           /\ lastArg' = <<TRUE>>
                                => AssetsSorted(tx.body.outputs[i].value.assets)
               /\ \A i \in DOMAIN tx.body.outputs :
                     tx.body.outputs[i].value.lovelace = MinDeposit(tx.body.outputs[i])
                        => validateOutputs([tx EXCEPT !.body.outputs =
                                                <<OneLess(tx.body.outputs[i])>>],
                                           params, FALSE, config.STRICT_BABBAGE)
                             = "not enough lovelace in output" ]_vars

\* C15, amended: the output check passes iff every output holds at least
\* (encoded size + 160) * utxoCostPerByte lovelace and, when strict, has its
\* assets sorted (so a non-strict validate passes unsorted assets with
\* enough lovelace); an output holding exactly the minimum deposit passes,
\* and the same output with one lovelace less fails with 'not enough
\* lovelace in output' provided the lower lovelace leaves the encoded size
\* of the output as it is.
C15_Outputs ==
    [][ (lastOp' = "validate" /\ "validateOutputs" \in Range(checksRun'))
            => /\ CheckPassed("validateOutputs", lastErr', checksRun')
                    <=> \A i \in DOMAIN tx.body.outputs :
                           /\ tx.body.outputs[i].value.lovelace
                                >= MinDeposit(tx.body.outputs[i])
                           /\ lastArg' = <<TRUE>>
                                => AssetsSorted(tx.body.outputs[i].value.assets)
               /\ (\E i \in DOMAIN tx.body.outputs :
                      tx.body.outputs[i].value.lovelace < MinDeposit(tx.body.outputs[i]))
                    => lastErr' = "not enough lovelace in output"
               /\ \A i \in DOMAIN tx.body.outputs :
                     (/\ tx.body.outputs[i].value.lovelace = MinDeposit(tx.body.outputs[i])
                      /\ MinDeposit(OneLess(tx.body.outputs[i]))
                           = MinDeposit(tx.body.outputs[i]))
                        => validateOutputs([tx EXCEPT !.body.outputs =
                                                <<OneLess(tx.body.outputs[i])>>],
                                           params, FALSE, config.STRICT_BABBAGE)
                             = "not enough lovelace in output" ]_vars

\* a non-strict validate has passed the output check of a Tx whose output
\* holds unsorted tokens and exactly its minimum deposit, which one
\* lovelace less would not change
C15_Witness ==
    /\ lastOp = "validate" /\ lastArg = <<FALSE>>
    /\ CheckPassed("validateOutputs", lastErr, checksRun)
    /\ Len(tx.body.outputs) = 1
    /\ ~AssetsSorted(tx.body.outputs[1].value.assets)
    /\ tx.body.outputs[1].value.lovelace = MinDeposit(tx.body.outputs[1])
    /\ MinDeposit(OneLess(tx.body.outputs[1])) = MinDeposit(tx.body.outputs[1])

-----------------------------------------------------------------------------
(* Tx.validateInputsOrder, validateRefInputsOrder, validateWithdrawalsOrder *)

\* a Tx without inputs, outputs or fee, at a fee of nothing per byte
EmptyTx == NewTx(EmptyBody, EmptyWitnesses, FALSE, None)

\* the inputs of key 1 that spend the outputs of the ids given, each empty
EmptyInputs(ids) == [i \in DOMAIN ids |-> KeyInput(ids[i], 1, 0)]

\* withdrawals of nothing from the staking addresses of the keys given
EmptyWithdrawals(keys) == [i \in DOMAIN keys |-> <<PubKeyCred(keys[i]), 0>>]

\* RoomyTx, whose script input is <<1, 0>>, followed by one or two more
\* inputs: ascending, tied or inverted; with none, one or two reference
\* inputs; with none, one or two withdrawals; and the Tx without inputs
OrderScenarios ==
    {Scenario([RoomyTx EXCEPT !.body.inputs = @ \o EmptyInputs(ids)], BaseParams, UnitCost) :
        ids \in {<<>>, << <<0, 1>> >>, << <<1, 0>> >>, << <<1, 1>> >>,
                 << <<1, 1>>, <<2, 0>> >>, << <<1, 1>>, <<1, 1>> >>,
                 << <<2, 0>>, <<1, 1>> >>, << <<0, 1>>, <<2, 0>> >>}}
    \cup {Scenario([RoomyTx EXCEPT !.body.refInputs = EmptyInputs(ids)],
                   BaseParams, UnitCost) :
             ids \in SeqsUpTo({<<3, 0>>, <<3, 1>>}, 2)}
    \cup {Scenario([RoomyTx EXCEPT !.body.withdrawals = EmptyWithdrawals(keys)],
                   BaseParams, UnitCost) :
             keys \in SeqsUpTo({1, 2}, 2)}
    \cup {Scenario(EmptyTx, [BaseParams EXCEPT !.txFeePerByte = 0], UnitCost)}

InitOrder == Start(OrderScenarios)

SpecOrder == InitOrder /\ [][Next]_vars

\* pair a comes before pair b: by the first component, then by the second
PairBefore(a, b) == a[1] < b[1] \/ (a[1] = b[1] /\ a[2] < b[2])

\* every element of the list of pairs comes before the next one
StrictlyAscending(pairs) ==
    \A i \in DOMAIN pairs : i > 1 => PairBefore(pairs[i - 1], pairs[i])

InputIds(inputs) == [i \in DOMAIN inputs |-> inputs[i].id]

\* a staking address as its header (key before script) and its hash
WithdrawalKeys(ws) ==
    [i \in DOMAIN ws |-> <<IF ws[i][1].kind = "pubkey" THEN 0 ELSE 1, ws[i][1].hash>>]

\* the check `name` of the validate that ended with err passes iff `pairs`
\* is strictly ascending, and fails with `message` otherwise
OrderChecked(name, message, pairs, err, ran) ==
    name \in Range(ran)
        => /\ CheckPassed(name, err, ran) <=> StrictlyAscending(pairs)
           /\ ~StrictlyAscending(pairs) => err = message
           /\ Len(pairs) <= 1 => CheckPassed(name, err, ran)

\* C16: inputs, reference inputs and withdrawals are accepted only in
\* strictly ascending order (inputs by transaction id and output index,
\* withdrawals by staking address): a tie or an inversion fails the check,
\* a list of length 0 or 1 always passes it, and a Tx whose inputs are out
\* of order never passes validate.
C16_Order ==
    [][ lastOp' = "validate"
            => /\ OrderChecked("validateInputsOrder", "inputs aren't sorted",
                               InputIds(tx.body.inputs), lastErr', checksRun')
               /\ OrderChecked("validateRefInputsOrder", "refInputs not sorted",
                               InputIds(tx.body.refInputs), lastErr', checksRun')
               /\ OrderChecked("validateWithdrawalsOrder", "withdrawals not sorted",
                               WithdrawalKeys(tx.body.withdrawals), lastErr', checksRun')
               /\ ~StrictlyAscending(InputIds(tx.body.inputs)) => lastErr' # "ok" ]_vars

\* validate has rejected a Tx for its inputs, the last two of which spend
\* the same output
C16_Witness ==
    /\ lastOp = "validate" /\ lastErr = "inputs aren't sorted"
    /\ Len(tx.body.inputs) = 3
    /\ PairBefore(tx.body.inputs[1].id, tx.body.inputs[2].id)
    /\ tx.body.inputs[2].id = tx.body.inputs[3].id

-----------------------------------------------------------------------------
(* Tx.validateMetadata *)

\* the metadata blobs of the scenarios
Blobs == {1, 2}

\* RoomyTx without metadata or with either blob, and without metadata hash
\* or with the hash of either blob
MetadataScenarios ==
    {Scenario([RoomyTx EXCEPT !.metadata = m, !.body.metadataHash = h],
              BaseParams, UnitCost) :
        m \in {None} \cup Blobs, h \in {None} \cup {MetadataHash(b) : b \in Blobs}}

InitMetadata == Start(MetadataScenarios)

SpecMetadata == InitMetadata /\ [][Next]_vars

MetadataErrors ==
    << "metadataHash not included in a Tx that has metadata",
       "metadataHash included in a Tx that doesn't have any metadata",
       "metadataHash doesn't correspond with actual metadata" >>

\* C17: the metadata check passes in exactly two of the four combinations of
\* metadata and metadata hash being present: neither, or both with the hash
\* being that of the metadata. Metadata without hash, a hash without
\* metadata, and a hash that differs from that of the metadata each fail
\* with an error of their own.
C17_Metadata ==
    [][ (lastOp' = "validate" /\ "validateMetadata" \in Range(checksRun'))
            => \A present \in {tx.metadata # None} :
               \A hashed \in {tx.body.metadataHash # None} :
                  /\ CheckPassed("validateMetadata", lastErr', checksRun')
                        <=> \/ ~present /\ ~hashed
                            \/ /\ present /\ hashed
                               /\ tx.body.metadataHash = MetadataHash(tx.metadata)
                  /\ (present /\ ~hashed) => lastErr' = MetadataErrors[1]
                  /\ (~present /\ hashed) => lastErr' = MetadataErrors[2]
                  /\ (present /\ hashed /\ tx.body.metadataHash # MetadataHash(tx.metadata))
                        => lastErr' = MetadataErrors[3]
                  /\ Cardinality(Range(MetadataErrors)) = 3 ]_vars

\* validate has rejected a Tx whose metadata hash is that of another blob
C17_Witness ==
    /\ lastOp = "validate"
    /\ tx.metadata # None /\ tx.body.metadataHash # None
    /\ tx.body.metadataHash # MetadataHash(tx.metadata)
    /\ lastErr = "metadataHash doesn't correspond with actual metadata"

-----------------------------------------------------------------------------
(* Tx.validateScriptDataHash and calcScriptDataHash *)

\* the script data hash as the ledger defines it: over the redeemers, the
\* datum list when there is a datum, and the cost model of the language
ExpectedScriptDataHash(p, datums, redeemers) ==
    [digestOf |-> <<redeemers>> \o (IF datums = <<>> THEN <<>> ELSE <<datums>>)
                  \o << <<1, sortedV2CostParams(p)>> >>]

\* RoomyTx with and without its redeemer, with and without a datum in the
\* witnesses, and with no script data hash, the hash of its redeemer alone,
\* of its redeemer and the datum, or of its redeemer and an empty datum list
ScriptDataScenarios ==
    {Scenario([RoomyTx EXCEPT !.witnesses.redeemers = redeemers,
                              !.witnesses.datums = datums,
                              !.body.scriptDataHash = hash],
              BaseParams, UnitCost) :
        redeemers \in {<<>>, RoomyTx.witnesses.redeemers},
        datums \in {<<>>, <<1>>},
        hash \in {<<>>} \cup
                 {<<ExpectedScriptDataHash(BaseParams, ds, RoomyTx.witnesses.redeemers)>> :
                     ds \in {<<>>, <<1>>}} \cup
                 {<<[digestOf |-> <<RoomyTx.witnesses.redeemers>> \o << <<>> >>
                                  \o << <<1, sortedV2CostParams(BaseParams)>> >>]>>}}

InitScriptData == Start(ScriptDataScenarios)

SpecScriptData == InitScriptData /\ [][Next]_vars

\* C18: with redeemers, the script-data-hash check fails on a missing hash,
\* passes a hash equal to calcScriptDataHash of the datums and redeemers
\* and fails any other as 'wrong script data hash'; without redeemers it
\* passes iff the hash is absent. calcScriptDataHash itself fails on an
\* empty redeemer list, and hashes the datum list only if there is at
\* least one datum.
C18_ScriptDataHash ==
    [][ /\ (lastOp' = "validate" /\ "validateScriptDataHash" \in Range(checksRun'))
            => \A expected \in {ExpectedScriptDataHash(params, tx.witnesses.datums,
                                                       tx.witnesses.redeemers)} :
               \A hash \in {tx.body.scriptDataHash} :
                  IF tx.witnesses.redeemers # <<>>
                  THEN /\ hash = <<>>
                            => lastErr' = "no script data hash included for a Tx that has redeemers"
                       /\ hash = <<expected>> => lastErr' = "ok"
                       /\ (hash # <<>> /\ hash # <<expected>>)
                            => lastErr' = "wrong script data hash"
                  ELSE /\ hash = <<>> <=> lastErr' = "ok"
                       /\ hash # <<>>
                            => lastErr' = "script data hash included for a Tx that has no redeemers"
        /\ lastOp' = "calcScriptDataHash"
            => IF tx.witnesses.redeemers = <<>>
               THEN lastErr' # "ok" /\ ret' = <<>>
               ELSE /\ lastErr' = "ok"
                    /\ ret' = <<ExpectedScriptDataHash(params, tx.witnesses.datums,
                                                       tx.witnesses.redeemers)>> ]_vars

\* validate has rejected, as wrong, the hash of the redeemer and an empty
\* datum list on a Tx that has a redeemer and no datum
C18_Witness ==
    /\ lastOp = "validate" /\ lastErr = "wrong script data hash"
    /\ tx.witnesses.redeemers # <<>> /\ tx.witnesses.datums = <<>>
    /\ tx.body.scriptDataHash =
          <<[digestOf |-> <<tx.witnesses.redeemers>> \o << <<>> >>
                          \o << <<1, sortedV2CostParams(params)>> >>]>>

-----------------------------------------------------------------------------
(* TxOutput.toCbor *)

\* RoomyTx with its output carrying no datum, a hash datum or an inline
\* datum, without and with script 1 as reference script
EncodingScenarios ==
    {Scenario([RoomyTx EXCEPT !.body.outputs[1].datum = datum,
                              !.body.outputs[1].refScript = refScript],
              BaseParams, UnitCost) :
        datum \in {NoDatum, HashDatum(1), InlineDatum(1)}, refScript \in {None, 1}}

\* under the default configuration and under strict Babbage
InitEncoding == StartUnder(EncodingScenarios, BOOLEAN)

SpecEncoding == InitEncoding /\ [][Next]_vars

\* the keys of the fields of an encoded output, in the order written
FieldKeys(fields) == [j \in DOMAIN fields |-> fields[j][1]]

\* C19: TxOutput.toCbor writes the tuple form iff the datum is absent or a
\* hash, there is no reference script and strict Babbage is off, and the map
\* form keyed 0..3 otherwise. The tuple has 2 fields without datum and 3
\* with a hash datum; the map always has keys 0 and 1, key 2 iff there is a
\* datum and key 3 iff there is a reference script.
C19_OutputEncoding ==
    [][ lastOp' = "toCbor"
            => \A i \in DOMAIN tx.body.outputs :
               \A output \in {tx.body.outputs[i]} :
               \A form \in {ret'[1].payload.forms[i]} :
               \A keys \in {FieldKeys(ret'[1].payload.fields[i])} :
                  /\ form \in {"tuple", "map"}
                  /\ form = "tuple"
                        <=> /\ output.datum.kind \in {"none", "hash"}
                            /\ output.refScript = None
                            /\ ~config.STRICT_BABBAGE
                  /\ form = "tuple"
                        => /\ Len(keys) = IF output.datum.kind = "hash" THEN 3 ELSE 2
                           /\ Len(keys) = 3
                                => ret'[1].payload.fields[i][3][2] = "datumHash"
                  /\ form = "map"
                        => /\ Len(keys) = Cardinality(Range(keys))
                           /\ Range(keys) =
                                {0, 1} \cup (IF output.datum.kind # "none" THEN {2} ELSE {})
                                       \cup (IF output.refScript # None THEN {3} ELSE {}) ]_vars

\* under strict Babbage toCbor has written an output without datum and
\* reference script in the map form, with the keys 0 and 1
C19_Witness ==
    /\ lastOp = "toCbor" /\ config.STRICT_BABBAGE
    /\ tx.body.outputs[1].datum.kind = "none" /\ tx.body.outputs[1].refScript = None
    /\ ret[1].payload.forms[1] = "map"
    /\ FieldKeys(ret[1].payload.fields[1]) = <<0, 1>>

-----------------------------------------------------------------------------
(* PubKeyHash and ValidatorHash *)

InitHashes == Start({Scenario(t, BaseParams, UnitCost) : t \in {BaseTx, SmartTx}})

SpecHashes == InitHashes /\ [][Next]_vars

HashClasses == {"PubKeyHash", "ValidatorHash"}

\* the calls that make a hash from an argument, and the calls of dummy()
HashCalls ==
    {class \o via : class \in HashClasses,
                    via \in {"", ".fromCbor", ".fromUplcData", ".fromUplcCbor"}}

DummyCalls == {class \o ".dummy" : class \in HashClasses}

\* the class of the hash a call makes
ClassOf(op) == CHOOSE class \in HashClasses : \E via \in {"", ".fromCbor", ".fromUplcData", ".fromUplcCbor", ".dummy"} : op = class \o via

\* the byte string inside the argument of a call
RawBytes(op, arg) ==
    IF op \in HashClasses THEN arg
    ELSE IF op \in {class \o ".fromCbor" : class \in HashClasses} THEN arg.payload
    ELSE IF op \in {class \o ".fromUplcData" : class \in HashClasses} THEN arg.bytes
    ELSE arg.payload.bytes

\* C20: every hash holds exactly 28 bytes. Constructing a PubKeyHash or a
\* ValidatorHash from raw bytes, with fromCbor, with fromUplcData or with
\* fromUplcCbor fails with 'expected 28 bytes' when the byte string is not
\* 28 bytes long and yields a hash of these bytes when it is; dummy()
\* always yields 28 zero bytes.
C20_HashLength ==
    /\ lastOp \in HashCalls
        => \A bytes \in {RawBytes(lastOp, lastArg[1])} :
              IF Len(bytes) = 28
              THEN /\ lastErr = "ok"
                   /\ ret = <<[class |-> ClassOf(lastOp), bytes |-> bytes]>>
              ELSE /\ lastErr = "expected 28 bytes for " \o ClassOf(lastOp)
                   /\ ret = <<>>
    /\ lastOp \in DummyCalls
        => /\ lastErr = "ok"
           /\ ret = <<[class |-> ClassOf(lastOp), bytes |-> [i \in 1..28 |-> 0]]>>
    /\ (lastOp \in HashCalls \cup DummyCalls /\ ret # <<>>) => Len(ret[1].bytes) = 28

\* ValidatorHash.fromUplcCbor has rejected a byte string of 29 bytes
C20_Witness ==
    /\ lastOp = "ValidatorHash.fromUplcCbor"
    /\ Len(RawBytes(lastOp, lastArg[1])) = 29
    /\ lastErr = "expected 28 bytes for ValidatorHash"
    /\ ret = <<>>

-----------------------------------------------------------------------------
(* NetworkParamsHelper: snapshots that lack fields *)

InitSnapshots == Start({Scenario(t, BaseParams, UnitCost) : t \in {BaseTx, SmartTx}})

SpecSnapshots == InitSnapshots /\ [][Next]_vars

\* the objects of a snapshot a path leads through
PathPrefixes ==
    {"latestParams.", "latestParmas.", "latestParams.executionUnitPrices.",
     "latestParams.maxTxExecutionUnits.", "latestParams.costModels.",
     "shelleyGenesis.", "latestTip."}

\* the error is a descriptive one that names the field
NamesField(err, field) ==
    \E prefix \in PathPrefixes : err = "'networkParams." \o prefix \o field \o "' undefined"

\* C21: constructing a NetworkParamsHelper never fails, whatever fields the
\* snapshot lacks; the access of a derived quantity succeeds when every field
\* it reads is present (also when other fields are missing), and otherwise
\* fails with a descriptive error that names a missing field it reads.
C21_DescriptiveErrors ==
    [][ lastOp' \in Getters
            => \A missing \in {FieldsRead(lastOp') \cap lastArg'[1]} :
                  IF missing = {} THEN lastErr' = "ok"
                  ELSE \E field \in missing : NamesField(lastErr', field) ]_vars

-----------------------------------------------------------------------------
(* Tx.calcSize: the placeholder signatures *)

\* the call measures the size for the fee
MeasuresFeeSize(op, arg, ran) ==
    \/ op = "calcSize" /\ arg = <<TRUE>>
    \/ op = "validate" /\ "validateFee" \in Range(ran)

-----------------------------------------------------------------------------
(* Tx.countMissingSignatures *)

\* the key hashes that have to sign: the required signers and the key
\* credentials of the inputs and of the collateral
SignerKeys(b) ==
    (Range(b.signers)
        \cup {pubKeyHash(b.inputs[i].output.address) : i \in DOMAIN b.inputs}
        \cup {pubKeyHash(b.collateral[i].output.address) : i \in DOMAIN b.collateral})
    \ {None}

\* the key hashes with a signature in the witnesses
KeysSigned(w) ==
    {w.signatures[i].pubKeyHash : i \in {j \in DOMAIN w.signatures : ~w.signatures[j].dummy}}

\* C23: countMissingSignatures is the number of unique required signers that
\* have no signature in the witnesses; it is never negative, and a signature
\* of a key that is not a required signer does not reduce it.
C23_MissingSignatures ==
    tx.body.synced
        => /\ countMissingSignatures(tx)
                = Cardinality(SignerKeys(tx.body) \ KeysSigned(tx.witnesses))
           /\ countMissingSignatures(tx) >= 0

-----------------------------------------------------------------------------
(* TxOutput.correctLovelace *)

\* C24: correctLovelace terminates for every output, parameter set and
\* updater, after at most 2 iterations of its loop; on return the lovelace
\* of the output is at least calcDeposit of the output as it then is and not
\* lower than before the call, and an output that held its deposit already
\* is left unchanged.
C24_TwoIterations ==
    [][ lastOp' = "correctLovelace"
            => \A before \in {lastArg'[1]}, r \in {ret'[1]} :
                  /\ ~r.looping
                  /\ r.iterations <= 2
                  /\ r.output.value.lovelace
                        >= calcDeposit(r.output, params, config.STRICT_BABBAGE)
                  /\ r.output.value.lovelace >= before.value.lovelace
                  /\ before.value.lovelace
                        >= calcDeposit(before, params, config.STRICT_BABBAGE)
                     => r.output = before ]_vars

-----------------------------------------------------------------------------
(* Tx.calcMinCollateral *)

\* the script-spending transaction with fee 500 (150 % of it is 750) and with
\* fee 501 (751.5), with one collateral input holding the percentage of the
\* fee rounded down, rounded up, and one lovelace more
MinCollateralScenarios ==
    {Scenario(WithCollateral(t, CollateralInputs(1, 750 + d, NoAssets), <<>>),
              BaseParams, UnitCost) :
        t \in {RoomyTx, OddFeeTx}, d \in 0..2}

InitMinCollateral == Start(MinCollateralScenarios)

SpecMinCollateral == InitMinCollateral /\ [][Next]_vars

\* C25: calcMinCollateral(networkParams) returns exactly
\* ceil(body.fee * minCollateralPct / 100), the threshold validateCollateral
\* enforces: a script transaction whose net collateral equals calcMinCollateral
\* passes the collateral check, and no smaller net collateral passes it.
C25_MinCollateral ==
    [][ (lastOp' = "validate" /\ "validateCollateral" \in Range(checksRun')
            /\ isSmart(tx.witnesses) /\ tx.body.synced)
            => \A minCollateral \in {calcMinCollateral(tx, params)} :
                  /\ 100 * (minCollateral - 1) < tx.body.fee * params.collateralPercentage
                  /\ tx.body.fee * params.collateralPercentage <= 100 * minCollateral
                  /\ NetCollateral(tx.body) = minCollateral
                        => CollateralPassed(lastErr', checksRun')
                  /\ NetCollateral(tx.body) < minCollateral
                        => ~CollateralPassed(lastErr', checksRun') ]_vars

-----------------------------------------------------------------------------
(* NetworkParamsHelper.maxTxFee *)

\* t under parameters whose maxTxSize is the size of t and room bytes more
WithRoom(t, room) ==
    Scenario(t, [BaseParams EXCEPT !.maxTxSize = calcSize(t, FALSE, FALSE) + room], UnitCost)

\* the transaction spending from a key, unsigned and signed, and the
\* script-spending one, unsigned: one byte too big, as big as allowed, and
\* with room for more than one signature
MaxFeeScenarios ==
    {WithRoom(t, room) : t \in {BaseTx, WithSignatures(BaseTx, <<1>>), RoomyTx},
                         room \in {-1, 0, 150}}

InitMaxFee == Start(MaxFeeScenarios)

SpecMaxFee == InitMaxFee /\ [][Next]_vars

\* C26: maxTxFee = txFeeFixed + ceil(txFeePerByte * maxTxSize)
\* + ceil(priceMemory * maxMem) + ceil(priceSteps * maxCpu) bounds the minimum
\* fee from above: for every transaction that passes the size check and the
\* total-execution-budget check under the same parameters, calcMinFee(params)
\* <= maxTxFee, also when the measurement of the size for the fee adds
\* placeholder signatures for signers that have not signed yet.
C26_MaxTxFee ==
    [][ (lastOp' = "validate" /\ CheckPassed("validateSize", lastErr', checksRun')
            /\ validateTotalExBudget(tx, params) = "ok")
            => calcMinFee(tx, params, config.STRICT_BABBAGE) <= maxTxFee(params) ]_vars

-----------------------------------------------------------------------------
(* Tx.validate *)

\* the results of the fourteen checks, each computed on its own, in the
\* order size, fee, conservation, collateral, scripts present, per-redeemer
\* budget, total budget, outputs, inputs order, reference-inputs order,
\* minted order, withdrawals order, metadata, script data hash
CheckResults(t, p, strict, strictBabbage, cost) ==
    << validateSize(t, p, strictBabbage),
       validateFee(t, p, strictBabbage),
       validateConservation(t, p),
       validateCollateral(t, p),
       validateScriptsPresent(t, strict),
       validateRedeemersExBudget(t, cost),
       validateTotalExBudget(t, p),
       validateOutputs(t, p, strict, strictBabbage),
       validateInputsOrder(t),
       validateRefInputsOrder(t),
       validateMintedOrder(t),
       validateWithdrawalsOrder(t),
       validateMetadata(t),
       validateScriptDataHash(t, p) >>

CheckNames ==
    << "validateSize", "validateFee", "validateConservation", "validateCollateral",
       "validateScriptsPresent", "validateRedeemersExBudget", "validateTotalExBudget",
       "validateOutputs", "validateInputsOrder", "validateRefInputsOrder",
       "validateMintedOrder", "validateWithdrawalsOrder", "validateMetadata",
       "validateScriptDataHash" >>

\* C1: validate runs the fourteen checks in the fixed order; the error it
\* raises is the one of the first check in this order that fails, no check
\* after that one is run, and it returns normally iff all fourteen pass.
C1_ValidateFailsFast ==
    [][ lastOp' = "validate"
            => \A errs \in {CheckResults(tx, params, lastArg'[1], config.STRICT_BABBAGE, vm)} :
                   /\ (lastErr' = "ok") = (\A i \in 1..NChecks : errs[i] = "ok")
                   /\ lastErr' = "ok" => checksRun' = CheckNames
                   /\ \A i \in 1..NChecks :
                         (errs[i] # "ok" /\ \A j \in 1..(i - 1) : errs[j] = "ok")
                             => lastErr' = errs[i] /\ checksRun' = SubSeq(CheckNames, 1, i) ]_vars

\* validate has stopped at the conservation check of a Tx whose collateral
\* is too small as well
C1_Witness ==
    /\ lastOp = "validate"
    /\ lastErr = "tx not balanced, net lovelace not zero"
    /\ checksRun = SubSeq(CheckNames, 1, 3)
    /\ validateCollateral(tx, params) = "not enough collateral"

\* C5: validate gives a Tx and the Tx that differs from it in the signed flag
\* alone the same outcome (the same error, after the same checks), and leaves
\* the flag as it is whether it passes or fails.
C5_ValidateIgnoresFlag ==
    [][ lastOp' = "validate"
            => /\ isValid(tx') = isValid(tx)
               /\ validate(WithValid(tx, ~isValid(tx)), params, lastArg'[1],
                           config.STRICT_BABBAGE, vm)
                     = [err |-> lastErr', ran |-> checksRun'] ]_vars

\* validate has failed on a Tx whose flag is true, at a check past the fee
C5_Witness ==
    /\ lastOp = "validate" /\ isValid(tx)
    /\ lastErr # "ok" /\ Len(checksRun) > 2

-----------------------------------------------------------------------------
(* The signed flag and the signatures *)

\* the key hashes validateSignatures asks a signature of
RequiredKeys(t) ==
    (Range(t.body.signers)
     \cup {pubKeyHash(t.body.inputs[i].output.address) : i \in DOMAIN t.body.inputs}
     \cup {pubKeyHash(t.body.collateral[i].output.address) : i \in DOMAIN t.body.collateral})
    \ {None}

\* the key hashes with a signature in the witnesses
SignedKeys(t) == {t.witnesses.signatures[i].pubKeyHash : i \in DOMAIN t.witnesses.signatures}

\* C2, as stated: the signed flag is true only if validateSignatures has
\* succeeded on this Tx before; no other operation yields a Tx whose flag is
\* true.
C2_FlagOnlyAfterValidateSignatures == isValid(tx) => sigOk

\* C2, amended: of the methods called on a Tx only a successful
\* validateSignatures changes its flag (to true); addSignature, addSignatures,
\* validate, calcSize, toCbor and recover leave it as it is, clearMetadata
\* copies it, and Tx.fromCbor gives the new Tx the boolean it decodes.
C2_FlagChanges ==
    [][ /\ lastOp' \in {"validate", "addSignature", "addSignatures", "calcSize", "toCbor",
                        "recover", "clearMetadata"}
            => isValid(tx') = isValid(tx)
        /\ lastOp' = "validateSignatures"
            => isValid(tx') = (isValid(tx) \/ lastErr' = "ok")
        /\ lastOp' = "fromCbor"
            => isValid(tx') = IF lastErr' = "ok" THEN decodeBool(wire'[3].payload)
                              ELSE isValid(tx) ]_vars

\* a Tx with required signers that validateSignatures has just marked signed
C2_Witness ==
    /\ lastOp = "validateSignatures" /\ lastErr = "ok"
    /\ isValid(tx) /\ sigOk /\ tx.body.signers # <<>>

\* C3: validateSignatures succeeds and sets the flag iff every required signer
\* and every key credential of an input or a collateral input has a signature
\* in the witnesses; otherwise it throws a "signature ... missing" error and
\* the flag keeps its value.
C3_ValidateSignatures ==
    [][ (lastOp' = "validateSignatures" /\ tx.body.synced)
            => IF RequiredKeys(tx) \subseteq SignedKeys(tx)
               THEN lastErr' = "ok" /\ isValid(tx')
               ELSE /\ lastErr' \in {"signature for signer missing",
                                     "signature for input missing"}
                    /\ isValid(tx') = isValid(tx) ]_vars

\* validateSignatures has passed a script-spending Tx with a required signer
\* and a key-owned collateral input
C3_Witness ==
    /\ lastOp = "validateSignatures" /\ lastErr = "ok" /\ tx.body.synced
    /\ tx.body.signers # <<>> /\ tx.body.collateral # <<>>
    /\ \E i \in DOMAIN tx.body.inputs : validatorHash(tx.body.inputs[i].output.address) # None
    /\ Cardinality(SignedKeys(tx)) = 2

\* C4: addSignature on a Tx whose flag is false adds the signature to the
\* witnesses instead of failing, so that signatures accumulate until
\* validateSignatures sets the flag.
C4_SignaturesAccumulate ==
    [][ (lastOp' = "addSignature" /\ ~isValid(tx) /\ (lastArg'[1].good \/ ~lastArg'[2]))
            => lastErr' = "ok" /\ lastArg'[1].pubKeyHash \in SignedKeys(tx') ]_vars

\* C6: for bytes b that Tx.fromCbor accepts, Tx.fromCbor(b).toCbor() = b, and
\* the boolean toCbor writes is the flag of the Tx.
C6_RoundTrip ==
    (lastOp = "fromCbor" /\ lastErr = "ok")
        => /\ Tx_toCbor(tx, FALSE, config.STRICT_BABBAGE) = wire
           /\ decodeBool(Tx_toCbor(tx, FALSE, config.STRICT_BABBAGE)[3].payload) = isValid(tx)

====
